---- MODULE Spec2Model ----
(***************************************************************************)
(* Echidna data crate: the subscriber's receive loop and discovery loop    *)
(* (subscriber.rs), the publisher's discovery loop and send entry point    *)
(* (publisher.rs), the wire messages they exchange (protocol.rs) and the   *)
(* HashMap codec that carries the peer table (codec/src/hashmap.rs).       *)
(*                                                                         *)
(* Byte arrays (Vec<u8>) are sequences of bytes, indexed from 1, so the    *)
(* Rust offset k is position k+1.  Vec<bool> likewise.                     *)
(***************************************************************************)
EXTENDS Integers, Sequences, FiniteSets, TLC

\* protocol.rs:15 sets CHUNK_SIZE to 16384.  The model scales it down so that
\* buffers stay small; no definition below depends on its value.
CHUNK_SIZE == 2

\* Message ids are 0..MaxId (MessageId = u64; 0 is the id of a fresh state).
MaxId == 2
\* Payload bytes are 0..MaxByte.
MaxByte == 1
\* Longest message, in bytes, the environment of Spec sends chunks of.
MaxBytes == 3
\* Longest payload of the round-trip specification.
MaxLen == 5
\* Chunks fed in one run of the round-trip specification.
MaxFeed == 4
\* Source addresses of datagrams are 1..MaxAddr.
MaxAddr == 2
\* Datagrams the receive loop handles in one run of Spec.
MaxRecv == 4
\* Subscriber ids known to the Participant are 1..MaxSub.
MaxSub == 2
\* Connections the publisher's discovery loop opens in one run.
MaxConnect == 2
\* Control messages the discovery loop reads in one run.
MaxRead == 2
\* Datagrams the receive loop handles in one run of SpecDiscovery.
MaxPartRecv == 1
\* Datagrams the receive loop handles in one run of SpecDecode.
MaxRaw == 2
\* Datagrams the receive loop handles in one run of SpecLock.
MaxLockRecv == 2
\* Control messages the Participant writes in one run of SpecStream.
MaxWrite == 2
\* The maps of SpecCodec have keys 0..MaxKey and values -MaxValue..MaxValue.
MaxKey == 2
MaxValue == 1
\* Calls of send in one run.
MaxSend == 1
\* Acks that reach the publisher's socket in one run.
MaxAcks == 1
\* Longest index list of such an Ack.
MaxAckLen == 2
\* The clock advances by TickUsec microseconds, up to MaxTime.
TickUsec == 50
MaxTime == 200

\* Threads that call the AtomicWaker are 1..MaxThreads.
MaxThreads == 3
\* Calls of register, and calls of wake and take, in one run of SpecWaker.
MaxRegister == 2
MaxWake == 2

\* Calls of Task::poll, and changes of the state word by the runnable side,
\* in one run of SpecTask; the reference count stays within 0..MaxRefs.
MaxPoll == 2
MaxRunnable == 2
MaxRefs == 1

\* OnceCell: the values an initializer or set may offer are 1..MaxOnceValue,
\* at most MaxOnceCalls calls are made on the cell, at most MaxOnceDepth
\* initializers of the unsync cell are running inside one another, and
\* MaxOnceThreads threads share the sync cell.
MaxOnceValue == 2
MaxOnceCalls == 3
MaxOnceDepth == 2
MaxOnceThreads == 2

\* protocol.rs:23
RETRANSMIT_DELAY_USEC == 100
\* publisher.rs:108 and subscriber.rs:114: time::sleep(Duration::from_secs(5))
RECONNECT_DELAY_SECS == 5

VARIABLES
    state_id,        \* SubscriberState.id
    state_buffer,    \* SubscriberState.buffer
    state_received,  \* SubscriberState.received
    ack_indices,     \* run_socket_receiver: let mut ack_indices
    recv_alive,      \* the task running run_socket_receiver has not panicked
    pts,             \* the datagram handled last and its source address
    on_data,         \* the buffers on_data was called with, in order
    sub_sent,        \* the datagrams the subscriber sent, in order
    nrecv,           \* datagrams handled so far
    seen,            \* indices of the chunks handled since the last reset
    prev,            \* the subscriber as it was before the last datagram
    copied,          \* the payloads copied into the buffer since the last reset
    delivered,       \* the message ids on_data was called for, in order
    ack_ids,         \* for each entry of ack_indices, the id of its chunk
    message,         \* the message whose chunks are fed (round trip)
    fed,             \* the indices of its chunks that reached the socket
    subs,            \* PublisherState.subs
    part_pc,         \* where Publisher::run_participant_connection stands
    ptp,             \* the control message read last
    prev_subs,       \* PublisherState.subs before that message
    announced,       \* InitPub announcements sent so far
    nread,           \* control messages read so far
    part_connected,  \* connections to the Participant the publisher opened
    part_closed,     \* times its read loop ended (length 0 or an error)
    part_failed,     \* connection attempts of the publisher that failed
    part_slept,      \* seconds its discovery loop spent in time::sleep
    part_panic,      \* the message its discovery task panicked with, or ""
    sp_pc,           \* where Subscriber::run_participant_connection stands
    p2s,             \* the ParticipantToSubscriber message read last
    sp_prev,         \* the reassembly state before the loop's last step
    sp_announced,    \* InitSub announcements sent so far
    sp_nread,        \* control messages the subscriber read so far
    sp_connected,    \* connections to the Participant the subscriber opened
    sp_closed,       \* times its read loop ended (length 0 or an error)
    sp_failed,       \* connection attempts of the subscriber that failed
    sp_slept,        \* seconds its discovery loop spent in time::sleep
    sp_panic,        \* the message its discovery task panicked with, or ""
    recv_buffer,     \* run_socket_receiver: let mut buffer
    raw,             \* the bytes of the datagram received last
    recv_pc,         \* where run_socket_receiver stands (SpecLock)
    state_lock,      \* the task that holds Subscriber.state's mutex, or ""
    pending,         \* the message recv_from returned, being handled
    part_stream,     \* what the Participant wrote and the publisher has not read
    part_written,    \* the control messages the Participant wrote, in order
    part_buffer,     \* Publisher::run_participant_connection: recv_buffer
    applied,         \* the control messages the publisher decoded, in order
    codec_map,       \* the map handed to HashMap::encode
    codec_wire,      \* what encode wrote
    codec_out,       \* what HashMap::decode returned for it
    send_calls,      \* the calls of Publisher::send that returned
    pub_sent,        \* the datagrams the publisher sent, in order
    pub_inbox,       \* the datagrams that reached the publisher's socket
    now              \* the time, in microseconds

sub_vars == <<state_id, state_buffer, state_received, ack_indices, recv_alive,
              pts, on_data, sub_sent, nrecv, seen, prev, copied, delivered,
              ack_ids>>

feed_vars == <<message, fed>>

part_vars == <<subs, part_pc, ptp, prev_subs, announced, nread,
               part_connected, part_closed, part_failed, part_slept, part_panic>>

disc_vars == <<sp_pc, p2s, sp_prev, sp_announced, sp_nread, sp_connected,
               sp_closed, sp_failed, sp_slept, sp_panic>>

raw_vars == <<recv_buffer, raw>>

lock_vars == <<recv_pc, state_lock, pending>>

stream_vars == <<part_stream, part_written, part_buffer, applied>>

codec_vars == <<codec_map, codec_wire, codec_out>>

\* AtomicWaker (async/src/atomicwaker.rs) and the threads that call it
VARIABLES
    aw_state,        \* AtomicWaker.state
    aw_waker,        \* AtomicWaker.waker, the slot: None or Some(waker)
    aw_pc,           \* per thread: the atomic operation it executes next
    aw_call,         \* per thread: the call in progress, "" when idle
    aw_local,        \* per thread: the register argument or the waker taken
    aw_woken,        \* history: the wakers woken so far
    aw_taken,        \* history: the wakers take() returned to a caller
    aw_hit,          \* history: the wakers registered when a wake() began
    aw_latest,       \* history: the argument of the latest register call
    aw_nreg,         \* history: register calls so far
    aw_nwake,        \* history: wake and take calls so far
    aw_reg_threads   \* history: the threads that have called register

waker_vars == <<aw_state, aw_waker, aw_pc, aw_call, aw_local, aw_woken, aw_taken,
                aw_hit, aw_latest, aw_nreg, aw_nwake, aw_reg_threads>>

\* Task (async/src/task.rs): the handle of a spawned future, and the state
\* word of the header it shares with the Runnable
VARIABLES
    tk_state,        \* (*header).state
    tk_op,           \* the call the owner of the Task is in: "", "poll", ...
    tk_pc,           \* where that call is
    tk_local,        \* the local variable `state` of the function it is in
    tk_alive,        \* the Task has been neither detached nor dropped
    tk_result,       \* what the last poll_task returned
    tk_reads,        \* history: reads of the output
    tk_read_early,   \* history: the output was read while COMPLETED was unset
    tk_rpc,          \* where Runnable::drop is, "" when no Runnable is dropped
    tk_rdrop,        \* history: what Runnable::drop met and did, if it came last
    tk_destroyed,    \* history: vtable.destroy was called
    tk_cancel,       \* history: what the latest set_canceled met and did
    tk_canceled,     \* history: what cancel() met and resolved to
    tk_npoll,        \* history: calls of poll so far
    tk_nrun          \* history: changes by the runnable side so far

task_vars == <<tk_state, tk_op, tk_pc, tk_local, tk_alive, tk_result, tk_reads,
               tk_read_early, tk_rpc, tk_rdrop, tk_destroyed, tk_cancel,
               tk_canceled, tk_npoll, tk_nrun>>

\* OnceCell (async/src/oncecell.rs): a cell that is written at most once
VARIABLES
    oc_kind,         \* which cell was constructed: "unsync" or "sync"
    oc_inner,        \* the Option<T> the cell holds
    oc_stack,        \* unsync: the get_or_try_init calls whose initializer runs
    oc_pc,           \* sync: where each thread is, "idle" or "initialize"
    oc_call,         \* sync: the call each thread is in
    oc_first,        \* history: the first Some(v) that get() returned
    oc_last,         \* history: the latest call that returned, and what it met
    oc_ran_present,  \* history: an initializer ran while a value was present
    oc_ncalls        \* history: calls so far

once_vars == <<oc_kind, oc_inner, oc_stack, oc_pc, oc_call, oc_first, oc_last,
               oc_ran_present, oc_ncalls>>

\* The crates of the async runtime.
async_vars == <<waker_vars, task_vars, once_vars>>

\* What the receive loop, the publisher and the feed leave alone.
more_vars == <<disc_vars, raw_vars, lock_vars, stream_vars, codec_vars, async_vars>>

send_vars == <<send_calls, pub_sent, pub_inbox, now>>

\* What the subscriber's discovery loop leaves alone.
not_disc == <<sub_vars, feed_vars, part_vars, send_vars, raw_vars, lock_vars,
              stream_vars, codec_vars,
    async_vars>>

\* What the receive loop leaves alone when it is fed bytes.
not_raw == <<feed_vars, part_vars, send_vars, disc_vars, lock_vars, stream_vars,
             codec_vars,
    async_vars>>

\* What the receive loop leaves alone when it is followed step by step.
not_lock == <<feed_vars, part_vars, send_vars, disc_vars, raw_vars, stream_vars,
              codec_vars,
    async_vars>>

\* What the publisher's reads from the stream leave alone.
not_stream == <<sub_vars, feed_vars, send_vars, disc_vars, raw_vars, lock_vars,
                codec_vars,
    async_vars>>

\* What a call of the HashMap codec leaves alone.
not_codec == <<sub_vars, feed_vars, part_vars, send_vars, disc_vars, raw_vars,
               lock_vars, stream_vars,
    async_vars>>

\* What a call of the AtomicWaker leaves alone.
not_waker == <<sub_vars, feed_vars, part_vars, send_vars, disc_vars, raw_vars,
               lock_vars, stream_vars, codec_vars, task_vars, once_vars>>

\* What the Task and its Runnable leave alone.
not_task == <<sub_vars, feed_vars, part_vars, send_vars, disc_vars, raw_vars,
              lock_vars, stream_vars, codec_vars, waker_vars, once_vars>>

\* What the OnceCell leaves alone.
not_once == <<sub_vars, feed_vars, part_vars, send_vars, disc_vars, raw_vars,
              lock_vars, stream_vars, codec_vars, waker_vars, task_vars>>

vars == <<sub_vars, feed_vars, part_vars, send_vars, more_vars>>

MessageIds == 0..MaxId
Bytes == 0..MaxByte
Addresses == 1..MaxAddr
\* The source address of a chunk, which the receive loop binds and never reads.
NoAddress == 0

Min(a, b) == IF a < b THEN a ELSE b

\* ceil(n / CHUNK_SIZE)
ChunkCount(n) == (n + CHUNK_SIZE - 1) \div CHUNK_SIZE

\* All byte strings of length n.
BytesOfLen(n) == [1..n -> Bytes]

(***************************************************************************)
(* Wire messages                                                           *)
(***************************************************************************)
Heartbeat(id) == [type |-> "Heartbeat", id |-> id]

Chunk(id, total_bytes, total, index, data) ==
    [type |-> "Chunk", id |-> id, total_bytes |-> total_bytes, total |-> total,
     index |-> index, data |-> data]

\* An Ack that lists every accumulated index once, at its first place.
AckMessage_Distinct(id, indices) ==
    LET keep == {k \in 1..Len(indices) :
                    \A j \in 1..(k - 1) : indices[j] # indices[k]}
        n == Cardinality(keep)
        at == CHOOSE f \in [1..n -> keep] : \A a, b \in 1..n : a < b => f[a] < f[b]
    IN  <<"Ack", id, [i \in 1..n |-> indices[at[i]]]>>

\* The value subscriber.rs:149 builds: Ack(id, ack_indices).
AckMessage(id, indices) == <<"Ack", id, indices>>

\* The bytes of chunk `index` of a payload.
ChunkData(payload, index) ==
    SubSeq(payload, index * CHUNK_SIZE + 1,
           Min((index + 1) * CHUNK_SIZE, Len(payload)))

\* Chunk `index` of message `id` with the given payload.
ChunkOf(id, payload, index) ==
    Chunk(id, Len(payload), ChunkCount(Len(payload)), index,
          ChunkData(payload, index))

\* The messages in flight in Spec: one payload for each id and length, whose
\* bytes differ from one id to the next.
Pattern(id, n) == [k \in 1..n |-> (id + k) % (MaxByte + 1)]

\* The chunks of the messages of 1..MaxBytes bytes.
MessageChunks ==
    UNION { { ChunkOf(id, Pattern(id, n), index) :
                id \in MessageIds, index \in 0..(ChunkCount(n) - 1) } :
            n \in 1..MaxBytes }

(***************************************************************************)
(* Subscriber::run_socket_receiver                                         *)
(***************************************************************************)
\* vec![0; n], vec![false; n]
Zeros(n) == [k \in 1..n |-> 0]
Falses(n) == [k \in 1..n |-> FALSE]

\* A receive loop that answers every heartbeat.
HeartbeatIsCurrent_Always(id) == TRUE

\* subscriber.rs:143
HeartbeatIsCurrent(id) == id = state_id

\* subscriber.rs:164
IsNewMessage(chunk) == chunk.id # state_id

\* A reset that keeps the buffer and the received vector of the old message.
ResetState_KeepsVectors(chunk) ==
    [id |-> chunk.id,
     buffer |-> state_buffer,
     received |-> state_received,
     acks |-> <<>>]

\* A reset that keeps the accumulator of the old message.
ResetState_KeepsAcks(chunk) ==
    [id |-> chunk.id,
     buffer |-> Zeros(chunk.total_bytes),
     received |-> Falses(chunk.total),
     acks |-> ack_indices]

\* subscriber.rs:168-171: the state and the accumulator after the reset.
ResetState(chunk) ==
    [id |-> chunk.id,
     buffer |-> Zeros(chunk.total_bytes),
     received |-> Falses(chunk.total),
     acks |-> <<>>]

\* An accumulator that takes the index of a chunk not yet received only.
PushIndex_OnlyNew(acks, received, index) ==
    IF index < Len(received) /\ received[index + 1] THEN acks ELSE Append(acks, index)

\* subscriber.rs:174: ack_indices.push(chunk.index), before the received
\* vector is looked at.
PushIndex(acks, received, index) == Append(acks, index)

\* subscriber.rs:177: state.received[chunk.index], None when out of bounds.
IndexInBounds(received, index) == index < Len(received)

\* A receive loop that takes every chunk for a new one.
AlreadyReceived_Never(received, index) == FALSE

\* subscriber.rs:177
AlreadyReceived(received, index) == received[index + 1]

\* subscriber.rs:180-182: buffer[start..end].copy_from_slice(data); the slice
\* panics when end exceeds the buffer.
SliceInBounds(buffer, start, end) == start <= end /\ end <= Len(buffer)

\* A copy that ignores the chunk's offset.
CopyFromSlice_AtStart(buffer, start, data) ==
    [k \in 1..Len(buffer) |-> IF k <= Len(data) THEN data[k] ELSE buffer[k]]

\* subscriber.rs:180-182
CopyFromSlice(buffer, start, data) ==
    [k \in 1..Len(buffer) |->
        IF k > start /\ k <= start + Len(data) THEN data[k - start] ELSE buffer[k]]

\* subscriber.rs:185
MarkReceived(received, index) == [received EXCEPT ![index + 1] = TRUE]

\* subscriber.rs:188-194
Complete(received) == \A k \in 1..Len(received) : received[k]

\* The subscriber before a datagram is handled.
Snapshot ==
    [id |-> state_id, buffer |-> state_buffer, received |-> state_received,
     acks |-> ack_indices, seen |-> seen, ncalls |-> Len(on_data),
     nsent |-> Len(sub_sent), ack_ids |-> ack_ids]

\* subscriber.rs:138-154
RecvHeartbeat(id, address) ==
    /\ pts' = [address |-> address, msg |-> Heartbeat(id)]
    /\ prev' = Snapshot
    /\ UNCHANGED <<seen, copied, delivered>>
    /\ nrecv' = nrecv + 1
    /\ IF HeartbeatIsCurrent(id)
       THEN /\ sub_sent' = Append(sub_sent,
                                  [to |-> address, msg |-> AckMessage(id, ack_indices)])
            /\ ack_indices' = <<>>
            /\ ack_ids' = <<>>
       ELSE UNCHANGED <<sub_sent, ack_indices, ack_ids>>
    /\ UNCHANGED <<state_id, state_buffer, state_received, recv_alive, on_data>>

\* subscriber.rs:157-206
RecvChunk(chunk) ==
    LET s0 == IF IsNewMessage(chunk)
              THEN ResetState(chunk)
              ELSE [id |-> state_id, buffer |-> state_buffer,
                    received |-> state_received, acks |-> ack_indices]
        start == chunk.index * CHUNK_SIZE
        end == start + Len(chunk.data)
        buffer2 == CopyFromSlice(s0.buffer, start, chunk.data)
        received2 == MarkReceived(s0.received, chunk.index)
        copied0 == IF IsNewMessage(chunk) THEN <<>> ELSE copied
        \* the ids of the entries the accumulator keeps
        ids0 == SubSeq(ack_ids, Len(ack_ids) - Len(s0.acks) + 1, Len(ack_ids))
    IN  /\ pts' = [address |-> NoAddress, msg |-> chunk]
        /\ prev' = Snapshot
        /\ seen' = (IF IsNewMessage(chunk) THEN {} ELSE seen) \cup {chunk.index}
        /\ nrecv' = nrecv + 1
        /\ state_id' = s0.id
        /\ ack_indices' = PushIndex(s0.acks, s0.received, chunk.index)
        /\ ack_ids' = IF Len(ack_indices') > Len(s0.acks)
                      THEN Append(ids0, chunk.id) ELSE ids0
        /\ delivered' = IF /\ IndexInBounds(s0.received, chunk.index)
                           /\ ~AlreadyReceived(s0.received, chunk.index)
                           /\ SliceInBounds(s0.buffer, start, end)
                           /\ Complete(received2)
                        THEN Append(delivered, s0.id)
                        ELSE delivered
        /\ UNCHANGED sub_sent
        /\ IF ~IndexInBounds(s0.received, chunk.index)
           THEN \* index out of bounds: the task panics
                /\ recv_alive' = FALSE
                /\ state_buffer' = s0.buffer
                /\ state_received' = s0.received
                /\ copied' = copied0
                /\ UNCHANGED on_data
           ELSE IF AlreadyReceived(s0.received, chunk.index)
           THEN /\ state_buffer' = s0.buffer
                /\ state_received' = s0.received
                /\ copied' = copied0
                /\ UNCHANGED <<recv_alive, on_data>>
           ELSE IF ~SliceInBounds(s0.buffer, start, end)
           THEN \* slice out of range: the task panics
                /\ recv_alive' = FALSE
                /\ state_buffer' = s0.buffer
                /\ state_received' = s0.received
                /\ copied' = copied0
                /\ UNCHANGED on_data
           ELSE /\ state_buffer' = buffer2
                /\ state_received' = received2
                /\ copied' = [k \in DOMAIN copied0 \cup {chunk.index} |->
                                IF k = chunk.index THEN chunk.data ELSE copied0[k]]
                /\ on_data' = IF Complete(received2)
                              THEN Append(on_data, buffer2)
                              ELSE on_data
                /\ UNCHANGED recv_alive

\* subscriber.rs:131: the loop takes the next datagram while the task lives.
CanReceive == recv_alive /\ nrecv < MaxRecv

ReceiveHeartbeat ==
    /\ CanReceive
    /\ \E id \in MessageIds, address \in Addresses : RecvHeartbeat(id, address)
    /\ UNCHANGED <<feed_vars, part_vars, send_vars, more_vars>>

ReceiveChunk ==
    /\ CanReceive
    /\ \E chunk \in MessageChunks : RecvChunk(chunk)
    /\ UNCHANGED <<feed_vars, part_vars, send_vars, more_vars>>

\* subscriber.rs:52-56, 122-126
SubInit ==
    /\ state_id = 0
    /\ state_buffer = <<>>
    /\ state_received = <<>>
    /\ ack_indices = <<>>
    /\ recv_alive = TRUE
    /\ pts = [address |-> NoAddress, msg |-> [type |-> "None"]]
    /\ on_data = <<>>
    /\ sub_sent = <<>>
    /\ nrecv = 0
    /\ seen = {}
    /\ copied = <<>>
    /\ delivered = <<>>
    /\ ack_ids = <<>>
    /\ prev = [id |-> 0, buffer |-> <<>>, received |-> <<>>, acks |-> <<>>,
               seen |-> {}, ncalls |-> 0, nsent |-> 0, ack_ids |-> <<>>]

(***************************************************************************)
(* HashMap codec (hashmap.rs).  Keys and values are taken whole: their own *)
(* codecs are outside this crate.  A map on the wire is its u32 length and *)
(* its entries in the order the map yields them.                           *)
(***************************************************************************)
None == [some |-> FALSE]
Some(v) == [some |-> TRUE, value |-> v]

EmptyMap == <<>>

\* HashMap::insert
Insert(r, key, value) ==
    [k \in DOMAIN r \cup {key} |-> IF k = key THEN value ELSE r[k]]

\* The orders in which a map may yield its keys.
Orderings(S) ==
    { f \in [1..Cardinality(S) -> S] :
        \A i, j \in 1..Cardinality(S) : f[i] = f[j] => i = j }

\* hashmap.rs:40-48.  The length is written as u32; a map of fewer than 2^32
\* entries keeps its length.
HashMapEncode(m) ==
    { [len |-> Cardinality(DOMAIN m),
       items |-> [i \in 1..Cardinality(DOMAIN m) |-> <<f[i], m[f[i]]>>]] :
      f \in Orderings(DOMAIN m) }

\* hashmap.rs:16-32: the map after the entries from position i on.
RECURSIVE DecodeItems(_, _, _, _)
DecodeItems(items, i, len, r) ==
    IF i > len THEN r
    ELSE DecodeItems(items, i + 1, len, Insert(r, items[i][1], items[i][2]))

\* A decoder whose loop stops one entry early.
HashMapDecode_DropsLast(w) ==
    IF Len(w.items) < w.len THEN None
    ELSE Some(DecodeItems(w.items, 1, w.len - 1, EmptyMap))

\* hashmap.rs:12-38
HashMapDecode(w) ==
    IF Len(w.items) < w.len THEN None
    ELSE Some(DecodeItems(w.items, 1, w.len, EmptyMap))

\* The maps of the round trip, as HashMap<u16, i32> of hashmap.rs:66-80.
CodecMaps ==
    UNION { [D -> (0 - MaxValue)..MaxValue] : D \in SUBSET (0..MaxKey) }

\* hashmap.rs:40-48: encode writes the map in the order it yields its entries.
CodecEncode ==
    /\ ~codec_wire.some
    /\ \E w \in HashMapEncode(codec_map) : codec_wire' = Some(w)
    /\ UNCHANGED <<codec_map, codec_out>>
    /\ UNCHANGED not_codec

\* hashmap.rs:12-38: decode reads what encode wrote.
CodecDecode ==
    /\ codec_wire.some
    /\ ~codec_out.done
    /\ codec_out' = [done |-> TRUE, result |-> HashMapDecode(codec_wire.value)]
    /\ UNCHANGED <<codec_map, codec_wire>>
    /\ UNCHANGED not_codec

\* No call of the codec has been made.
CodecInit ==
    /\ codec_map = EmptyMap
    /\ codec_wire = None
    /\ codec_out = [done |-> FALSE]

(***************************************************************************)
(* AtomicWaker (async/src/atomicwaker.rs), one atomic operation at a time.  *)
(* A thread between two operations of a call is at the pc of the next one.  *)
(* Every register call passes a waker of its own, numbered from 1.          *)
(***************************************************************************)
\* atomicwaker.rs:18-20
WAITING == 0
REGISTERING == 1
WAKING == 2

Threads == 1..MaxThreads

\* The thread that makes the next call.  Idle threads hold nothing of a call,
\* so two of them differ only in whether they have called register: of the
\* idle threads that have, and of those that have not, the first one calls.
FirstIdle(t) ==
    /\ aw_pc[t] = "idle"
    /\ \A u \in 1..(t - 1) :
          aw_pc[u] = "idle" => ((u \in aw_reg_threads) # (t \in aw_reg_threads))

\* usize | WAKING and usize & !WAKING on the two bits the state uses.
FetchOrWaking(state) == IF state >= WAKING THEN state ELSE state + WAKING
FetchAndNotWaking(state) == IF state >= WAKING THEN state - WAKING ELSE state

\* A take that leaves the slot alone only while a register holds it.
TakeOwns_UnlessRegistering(observed) == observed \in {WAITING, WAKING}

\* atomicwaker.rs:66-67: the arm of take that reads the slot.
TakeOwns(observed) == observed = WAITING

\* A register that drops the waker when its release fails.
ReleaseWakes_Never(woken, waker) == woken

\* atomicwaker.rs:45: waker.wake() after a release that met WAKING.
ReleaseWakes(woken, waker) == woken \cup {waker}

\* atomicwaker.rs:34: compare_exchange(WAITING, REGISTERING) and the match
\* on what it returned.
RegisterExchange(t) ==
    /\ FirstIdle(t)
    /\ aw_nreg < MaxRegister
    /\ aw_nreg' = aw_nreg + 1
    /\ aw_latest' = Some(aw_nreg + 1)
    /\ aw_reg_threads' = aw_reg_threads \cup {t}
    /\ aw_call' = [aw_call EXCEPT ![t] = "register"]
    /\ aw_local' = [aw_local EXCEPT ![t] = Some(aw_nreg + 1)]
    /\ IF aw_state = WAITING
       THEN /\ aw_state' = REGISTERING
            /\ aw_pc' = [aw_pc EXCEPT ![t] = "store"]
       ELSE /\ aw_state' = aw_state
            /\ aw_pc' = [aw_pc EXCEPT ![t] =
                            IF aw_state = WAKING THEN "wake_by_ref" ELSE "return"]
    /\ UNCHANGED <<aw_waker, aw_woken, aw_taken, aw_hit, aw_nwake>>
    /\ UNCHANGED not_waker

\* atomicwaker.rs:37: *self.waker.get() = Some(waker.clone())
RegisterStore(t) ==
    /\ aw_pc[t] = "store"
    /\ aw_waker' = aw_local[t]
    /\ aw_pc' = [aw_pc EXCEPT ![t] = "release"]
    /\ UNCHANGED <<aw_state, aw_call, aw_local, aw_woken, aw_taken, aw_hit,
                   aw_latest, aw_nreg, aw_nwake, aw_reg_threads>>
    /\ UNCHANGED not_waker

\* atomicwaker.rs:38-41: compare_exchange(REGISTERING, WAITING)
RegisterRelease(t) ==
    /\ aw_pc[t] = "release"
    /\ IF aw_state = REGISTERING
       THEN /\ aw_state' = WAITING
            /\ aw_pc' = [aw_pc EXCEPT ![t] = "return"]
       ELSE /\ aw_state' = aw_state
            /\ aw_pc' = [aw_pc EXCEPT ![t] = "retake"]
    /\ UNCHANGED <<aw_waker, aw_call, aw_local, aw_woken, aw_taken, aw_hit,
                   aw_latest, aw_nreg, aw_nwake, aw_reg_threads>>
    /\ UNCHANGED not_waker

\* atomicwaker.rs:43: (*self.waker.get()).take().unwrap()
RegisterRetake(t) ==
    /\ aw_pc[t] = "retake"
    /\ aw_local' = [aw_local EXCEPT ![t] = aw_waker]
    /\ aw_waker' = None
    /\ aw_pc' = [aw_pc EXCEPT ![t] = IF aw_waker.some THEN "swap" ELSE "panicked"]
    /\ UNCHANGED <<aw_state, aw_call, aw_woken, aw_taken, aw_hit, aw_latest,
                   aw_nreg, aw_nwake, aw_reg_threads>>
    /\ UNCHANGED not_waker

\* atomicwaker.rs:44: self.state.swap(WAITING)
RegisterSwap(t) ==
    /\ aw_pc[t] = "swap"
    /\ aw_state' = WAITING
    /\ aw_pc' = [aw_pc EXCEPT ![t] = "wake"]
    /\ UNCHANGED <<aw_waker, aw_call, aw_local, aw_woken, aw_taken, aw_hit,
                   aw_latest, aw_nreg, aw_nwake, aw_reg_threads>>
    /\ UNCHANGED not_waker

\* atomicwaker.rs:45: waker.wake(), and the return of register
RegisterWake(t) ==
    /\ aw_pc[t] = "wake"
    /\ aw_call[t] = "register"
    /\ aw_woken' = ReleaseWakes(aw_woken, aw_local[t].value)
    /\ aw_pc' = [aw_pc EXCEPT ![t] = "idle"]
    /\ aw_call' = [aw_call EXCEPT ![t] = ""]
    /\ aw_local' = [aw_local EXCEPT ![t] = None]
    /\ UNCHANGED <<aw_state, aw_waker, aw_taken, aw_hit, aw_latest, aw_nreg,
                   aw_nwake, aw_reg_threads>>
    /\ UNCHANGED not_waker

\* atomicwaker.rs:50-52: waker.wake_by_ref(), and the return of register
RegisterWakeByRef(t) ==
    /\ aw_pc[t] = "wake_by_ref"
    /\ aw_woken' = aw_woken \cup {aw_local[t].value}
    /\ aw_pc' = [aw_pc EXCEPT ![t] = "idle"]
    /\ aw_call' = [aw_call EXCEPT ![t] = ""]
    /\ aw_local' = [aw_local EXCEPT ![t] = None]
    /\ UNCHANGED <<aw_state, aw_waker, aw_taken, aw_hit, aw_latest, aw_nreg,
                   aw_nwake, aw_reg_threads>>
    /\ UNCHANGED not_waker

\* atomicwaker.rs:40, 53-55: register returns and has woken nothing
RegisterReturn(t) ==
    /\ aw_pc[t] = "return"
    /\ aw_call[t] = "register"
    /\ aw_pc' = [aw_pc EXCEPT ![t] = "idle"]
    /\ aw_call' = [aw_call EXCEPT ![t] = ""]
    /\ aw_local' = [aw_local EXCEPT ![t] = None]
    /\ UNCHANGED <<aw_state, aw_waker, aw_woken, aw_taken, aw_hit, aw_latest,
                   aw_nreg, aw_nwake, aw_reg_threads>>
    /\ UNCHANGED not_waker

\* atomicwaker.rs:66: fetch_or(WAKING) and the match on what it returned,
\* in a call of take or, atomicwaker.rs:60, of wake.
TakeFetchOr(t, call) ==
    /\ FirstIdle(t)
    /\ aw_nwake < MaxWake
    /\ aw_nwake' = aw_nwake + 1
    /\ aw_call' = [aw_call EXCEPT ![t] = call]
    /\ aw_hit' = IF call = "wake" /\ aw_latest.some
                 THEN aw_hit \cup {aw_latest.value} ELSE aw_hit
    /\ aw_state' = FetchOrWaking(aw_state)
    /\ aw_pc' = [aw_pc EXCEPT ![t] = IF TakeOwns(aw_state) THEN "take" ELSE "return"]
    /\ UNCHANGED <<aw_waker, aw_local, aw_woken, aw_taken, aw_latest, aw_nreg,
                   aw_reg_threads>>
    /\ UNCHANGED not_waker

\* atomicwaker.rs:68: (*self.waker.get()).take()
TakeSlot(t) ==
    /\ aw_pc[t] = "take"
    /\ aw_local' = [aw_local EXCEPT ![t] = aw_waker]
    /\ aw_waker' = None
    /\ aw_pc' = [aw_pc EXCEPT ![t] = "fetch_and"]
    /\ UNCHANGED <<aw_state, aw_call, aw_woken, aw_taken, aw_hit, aw_latest,
                   aw_nreg, aw_nwake, aw_reg_threads>>
    /\ UNCHANGED not_waker

\* atomicwaker.rs:69: fetch_and(!WAKING)
TakeFetchAnd(t) ==
    /\ aw_pc[t] = "fetch_and"
    /\ aw_state' = FetchAndNotWaking(aw_state)
    /\ aw_pc' = [aw_pc EXCEPT ![t] = "return"]
    /\ UNCHANGED <<aw_waker, aw_call, aw_local, aw_woken, aw_taken, aw_hit,
                   aw_latest, aw_nreg, aw_nwake, aw_reg_threads>>
    /\ UNCHANGED not_waker

\* atomicwaker.rs:70, 72-75: take returns what it took to its caller
TakeReturn(t) ==
    /\ aw_pc[t] = "return"
    /\ aw_call[t] = "take"
    /\ aw_taken' = IF aw_local[t].some
                   THEN aw_taken \cup {aw_local[t].value} ELSE aw_taken
    /\ aw_pc' = [aw_pc EXCEPT ![t] = "idle"]
    /\ aw_call' = [aw_call EXCEPT ![t] = ""]
    /\ aw_local' = [aw_local EXCEPT ![t] = None]
    /\ UNCHANGED <<aw_state, aw_waker, aw_woken, aw_hit, aw_latest, aw_nreg,
                   aw_nwake, aw_reg_threads>>
    /\ UNCHANGED not_waker

\* atomicwaker.rs:59-63: wake wakes what its take returned
WakeReturn(t) ==
    /\ aw_pc[t] = "return"
    /\ aw_call[t] = "wake"
    /\ aw_woken' = IF aw_local[t].some
                   THEN aw_woken \cup {aw_local[t].value} ELSE aw_woken
    /\ aw_pc' = [aw_pc EXCEPT ![t] = "idle"]
    /\ aw_call' = [aw_call EXCEPT ![t] = ""]
    /\ aw_local' = [aw_local EXCEPT ![t] = None]
    /\ UNCHANGED <<aw_state, aw_waker, aw_taken, aw_hit, aw_latest, aw_nreg,
                   aw_nwake, aw_reg_threads>>
    /\ UNCHANGED not_waker

Register ==
    \E t \in Threads :
        \/ RegisterExchange(t)
        \/ RegisterStore(t)
        \/ RegisterRelease(t)
        \/ RegisterRetake(t)
        \/ RegisterSwap(t)
        \/ RegisterWake(t)
        \/ RegisterWakeByRef(t)
        \/ RegisterReturn(t)

Take ==
    \E t \in Threads :
        \/ TakeFetchOr(t, "take")
        \/ TakeSlot(t)
        \/ TakeFetchAnd(t)
        \/ TakeReturn(t)

Wake ==
    \E t \in Threads :
        \/ TakeFetchOr(t, "wake")
        \/ TakeSlot(t)
        \/ TakeFetchAnd(t)
        \/ WakeReturn(t)

\* atomicwaker.rs:24-31: AtomicWaker::new(), and no call made yet
WakerInit ==
    /\ aw_state = WAITING
    /\ aw_waker = None
    /\ aw_pc = [t \in Threads |-> "idle"]
    /\ aw_call = [t \in Threads |-> ""]
    /\ aw_local = [t \in Threads |-> None]
    /\ aw_woken = {}
    /\ aw_taken = {}
    /\ aw_hit = {}
    /\ aw_latest = None
    /\ aw_nreg = 0
    /\ aw_nwake = 0
    /\ aw_reg_threads = {}

(***************************************************************************)
(* Task (async/src/task.rs) and Runnable (async/src/runnable.rs): the owner *)
(* of the Task polls it, detaches it, drops it or cancels it, one atomic    *)
(* operation on the state word at a time, while the runnable side changes   *)
(* the word.  RawTask (the vtable) and Header (register, notify) are not    *)
(* part of these sources: what they do to the word is stated with them.     *)
(***************************************************************************)
\* task.rs:33-41
SCHEDULED == 1
RUNNING == 2
COMPLETED == 4
CLOSED == 8
TASK == 16
AWAITER == 32
REFERENCE == 256

\* state & flag != 0, state | flag and state & !flag for a single flag.
Has(state, flag) == (state \div flag) % 2 = 1
Or(state, flag) == IF Has(state, flag) THEN state ELSE state + flag
AndNot(state, flag) == IF Has(state, flag) THEN state - flag ELSE state
\* state & !(REFERENCE - 1), as a count of references.
Refs(state) == state \div REFERENCE

\* task.rs:119: the word of a task that was spawned and nothing else.
SpawnedState == SCHEDULED + TASK + REFERENCE

\* Header::register: an awaiter is stored, which AWAITER records.
HeaderRegister(state) == Or(state, AWAITER)
\* Header::notify: the awaiter is taken out.
HeaderNotify(state) == AndNot(state, AWAITER)

\* A cancellation that closes the task and never schedules it.
CanceledState_ClosedOnly(state) == Or(state, CLOSED)

\* task.rs:87-91: the word set_canceled exchanges for `state`.
CanceledState(state) ==
    IF ~Has(state, SCHEDULED) /\ ~Has(state, RUNNING)
    THEN Or(Or(state, SCHEDULED), CLOSED) + REFERENCE
    ELSE Or(state, CLOSED)

\* A poll that does not look at CLOSED.
PollSeesClosed_Never(state) == FALSE

\* task.rs:161: state & CLOSED != 0
PollSeesClosed(state) == Has(state, CLOSED)

\* task.rs:122: the output is there and nobody has taken it.
OutputReady(state) == Has(state, COMPLETED) /\ ~Has(state, CLOSED)

\* task.rs:130-134: the word set_detached exchanges for `state`.
DetachedState(state) ==
    IF Refs(state) = 0 /\ ~Has(state, CLOSED)
    THEN SCHEDULED + CLOSED + REFERENCE
    ELSE AndNot(state, TASK)

\* task.rs:160-183: where poll_task goes with the word it has loaded.
PollBranch(state) ==
    IF PollSeesClosed(state)
    THEN IF Has(state, SCHEDULED) \/ Has(state, RUNNING)
         THEN "pt_closed_register" ELSE "pt_closed_notify"
    ELSE IF ~Has(state, COMPLETED) THEN "pt_register" ELSE "pt_cas"

NoCancel == [done |-> FALSE, changed |-> FALSE, before |-> 0, after |-> 0,
             nsched |-> 0, nnotif |-> 0]
NoCanceled == [called |-> FALSE, completed |-> FALSE, result |-> ""]

tk_hist == <<tk_reads, tk_read_early, tk_destroyed, tk_cancel, tk_canceled>>
NoDrop == [done |-> FALSE, before |-> 0, closed |-> 0, unscheduling |-> 0,
           unscheduled |-> 0, nnotif |-> 0, released |-> 0, npoll |-> 0]
tk_env == <<tk_rpc, tk_nrun, tk_rdrop>>

\* task.rs:204-212: Task::poll
StartPoll ==
    /\ tk_alive /\ tk_op = "" /\ tk_npoll < MaxPoll
    /\ tk_npoll' = tk_npoll + 1
    /\ tk_op' = "poll"
    /\ tk_pc' = "pt_load"
    /\ UNCHANGED <<tk_state, tk_local, tk_alive, tk_result, tk_hist, tk_env>>
    /\ UNCHANGED not_task

\* task.rs:59-63: Task::detach
StartDetach ==
    /\ tk_alive /\ tk_op = ""
    /\ tk_op' = "detach"
    /\ tk_pc' = "sd_fast"
    /\ UNCHANGED <<tk_state, tk_local, tk_alive, tk_result, tk_hist, tk_env, tk_npoll>>
    /\ UNCHANGED not_task

\* task.rs:197-202: Drop for Task
StartDrop ==
    /\ tk_alive /\ tk_op = ""
    /\ tk_op' = "drop"
    /\ tk_pc' = "sc_load"
    /\ UNCHANGED <<tk_state, tk_local, tk_alive, tk_result, tk_hist, tk_env, tk_npoll>>
    /\ UNCHANGED not_task

\* task.rs:65-67: Task::cancel
StartCancel ==
    /\ tk_alive /\ tk_op = "" /\ ~tk_canceled.called
    /\ tk_op' = "cancel"
    /\ tk_pc' = "sc_load"
    /\ UNCHANGED <<tk_state, tk_local, tk_alive, tk_result, tk_hist, tk_env, tk_npoll>>
    /\ UNCHANGED not_task

\* task.rs:83: set_canceled loads the word
CancelLoad ==
    /\ tk_pc = "sc_load"
    /\ tk_local' = tk_state
    /\ tk_pc' = "sc_cas"
    /\ tk_cancel' = NoCancel
    /\ UNCHANGED <<tk_state, tk_op, tk_alive, tk_result, tk_reads, tk_read_early,
                   tk_destroyed, tk_canceled, tk_env, tk_npoll>>
    /\ UNCHANGED not_task

\* What follows set_canceled: the first poll of cancel (task.rs:68-76), or
\* set_detached in drop (task.rs:200).
AfterCancel(op) == IF op = "cancel" THEN "pt_load" ELSE "sd_fast"

\* task.rs:84-110: one turn of the loop of set_canceled
CancelExchange ==
    /\ tk_pc = "sc_cas"
    /\ IF Has(tk_local, COMPLETED) \/ Has(tk_local, CLOSED)
       THEN /\ tk_cancel' = [NoCancel EXCEPT !.done = TRUE, !.before = tk_local,
                                             !.after = tk_state]
            /\ tk_canceled' = IF tk_op = "cancel"
                              THEN [called |-> TRUE,
                                    completed |-> Has(tk_local, COMPLETED),
                                    result |-> ""]
                              ELSE tk_canceled
            /\ tk_pc' = AfterCancel(tk_op)
            /\ UNCHANGED <<tk_state, tk_local>>
       ELSE IF tk_state = tk_local
       THEN /\ tk_state' = CanceledState(tk_local)
            /\ tk_pc' = IF ~Has(tk_local, SCHEDULED) /\ ~Has(tk_local, RUNNING)
                        THEN "sc_schedule"
                        ELSE IF Has(tk_local, AWAITER) THEN "sc_notify"
                        ELSE AfterCancel(tk_op)
            /\ tk_cancel' = [NoCancel EXCEPT !.done = tk_pc' = AfterCancel(tk_op),
                                             !.changed = TRUE,
                                             !.before = tk_local,
                                             !.after = tk_state']
            /\ tk_canceled' = IF tk_op = "cancel"
                              THEN [called |-> TRUE, completed |-> FALSE,
                                    result |-> ""]
                              ELSE tk_canceled
            /\ UNCHANGED tk_local
       ELSE /\ tk_local' = tk_state
            /\ UNCHANGED <<tk_state, tk_pc, tk_cancel, tk_canceled>>
    /\ UNCHANGED <<tk_op, tk_alive, tk_result, tk_reads, tk_read_early,
                   tk_destroyed, tk_env, tk_npoll>>
    /\ UNCHANGED not_task

\* task.rs:100-102: ((*header).vtable.schedule)(ptr)
CancelSchedule ==
    /\ tk_pc = "sc_schedule"
    /\ tk_pc' = IF Has(tk_cancel.before, AWAITER) THEN "sc_notify"
                ELSE AfterCancel(tk_op)
    /\ tk_cancel' = [tk_cancel EXCEPT !.nsched = @ + 1,
                                      !.done = tk_pc' = AfterCancel(tk_op)]
    /\ UNCHANGED <<tk_state, tk_op, tk_local, tk_alive, tk_result, tk_reads,
                   tk_read_early, tk_destroyed, tk_canceled, tk_env, tk_npoll>>
    /\ UNCHANGED not_task

\* task.rs:103-105: (*header).notify(None)
CancelNotify ==
    /\ tk_pc = "sc_notify"
    /\ tk_state' = HeaderNotify(tk_state)
    /\ tk_pc' = AfterCancel(tk_op)
    /\ tk_cancel' = [tk_cancel EXCEPT !.nnotif = @ + 1, !.done = TRUE]
    /\ UNCHANGED <<tk_op, tk_local, tk_alive, tk_result, tk_reads, tk_read_early,
                   tk_destroyed, tk_canceled, tk_env, tk_npoll>>
    /\ UNCHANGED not_task

\* What poll_task's caller does with what it returned: Task::poll hands the
\* output on, or panics on None (task.rs:208), which drops the Task; cancel
\* is polled again when pending and drops the Task when it has resolved
\* (task.rs:68-76).
PollReturns(result) ==
    /\ tk_result' = result
    /\ tk_local' = 0
    /\ tk_canceled' = IF tk_op = "cancel" /\ result # "Pending"
                      THEN [tk_canceled EXCEPT !.result = result]
                      ELSE tk_canceled
    /\ IF tk_op = "cancel"
       THEN IF result = "Pending"
            THEN tk_op' = "cancel" /\ tk_pc' = "pt_load"
            ELSE tk_op' = "drop" /\ tk_pc' = "sc_load"
       ELSE IF result = "None"
            THEN tk_op' = "drop" /\ tk_pc' = "sc_load"
            ELSE tk_op' = "" /\ tk_pc' = "idle"

\* task.rs:159: poll_task loads the word
PollLoad ==
    /\ tk_pc = "pt_load"
    /\ tk_local' = tk_state
    /\ tk_pc' = PollBranch(tk_state)
    /\ UNCHANGED <<tk_state, tk_op, tk_alive, tk_result, tk_hist, tk_env, tk_npoll>>
    /\ UNCHANGED not_task

\* task.rs:163 and 173: (*header).register(cx.waker())
PollRegister ==
    /\ tk_pc \in {"pt_closed_register", "pt_register"}
    /\ tk_state' = HeaderRegister(tk_state)
    /\ tk_pc' = IF tk_pc = "pt_register" THEN "pt_reload" ELSE "pt_closed_reload"
    /\ UNCHANGED <<tk_op, tk_local, tk_alive, tk_result, tk_hist, tk_env, tk_npoll>>
    /\ UNCHANGED not_task

\* task.rs:164-167: the word is loaded again in the CLOSED branch
PollClosedReload ==
    /\ tk_pc = "pt_closed_reload"
    /\ IF Has(tk_state, SCHEDULED) \/ Has(tk_state, RUNNING)
       THEN PollReturns("Pending")
       ELSE /\ tk_local' = tk_state
            /\ tk_pc' = "pt_closed_notify"
            /\ UNCHANGED <<tk_op, tk_result, tk_canceled>>
    /\ UNCHANGED <<tk_state, tk_alive, tk_reads, tk_read_early, tk_destroyed,
                   tk_cancel, tk_env, tk_npoll>>
    /\ UNCHANGED not_task

\* task.rs:169-170: notify(Some(cx.waker())) and Poll::Ready(None)
PollClosedNotify ==
    /\ tk_pc = "pt_closed_notify"
    /\ tk_state' = HeaderNotify(tk_state)
    /\ PollReturns("None")
    /\ UNCHANGED <<tk_alive, tk_reads, tk_read_early, tk_destroyed,
                   tk_cancel, tk_env, tk_npoll>>
    /\ UNCHANGED not_task

\* task.rs:174-180: the word is loaded again after the awaiter is stored
PollReload ==
    /\ tk_pc = "pt_reload"
    /\ IF Has(tk_state, CLOSED)
       THEN /\ tk_local' = tk_state
            /\ tk_pc' = PollBranch(tk_state)
            /\ UNCHANGED <<tk_op, tk_result, tk_canceled>>
       ELSE IF ~Has(tk_state, COMPLETED)
       THEN PollReturns("Pending")
       ELSE /\ tk_local' = tk_state
            /\ tk_pc' = "pt_cas"
            /\ UNCHANGED <<tk_op, tk_result, tk_canceled>>
    /\ UNCHANGED <<tk_state, tk_alive, tk_reads, tk_read_early, tk_destroyed,
                   tk_cancel, tk_env, tk_npoll>>
    /\ UNCHANGED not_task

\* task.rs:183-192: compare_exchange(state, state | CLOSED)
PollExchange ==
    /\ tk_pc = "pt_cas"
    /\ IF tk_state = tk_local
       THEN /\ tk_state' = Or(tk_local, CLOSED)
            /\ tk_pc' = IF Has(tk_local, AWAITER) THEN "pt_notify" ELSE "pt_read"
            /\ UNCHANGED tk_local
       ELSE /\ tk_local' = tk_state
            /\ tk_pc' = PollBranch(tk_state)
            /\ UNCHANGED tk_state
    /\ UNCHANGED <<tk_op, tk_alive, tk_result, tk_hist, tk_env, tk_npoll>>
    /\ UNCHANGED not_task

\* task.rs:185-187: notify(Some(cx.waker()))
PollNotify ==
    /\ tk_pc = "pt_notify"
    /\ tk_state' = HeaderNotify(tk_state)
    /\ tk_pc' = "pt_read"
    /\ UNCHANGED <<tk_op, tk_local, tk_alive, tk_result, tk_hist, tk_env, tk_npoll>>
    /\ UNCHANGED not_task

\* task.rs:188-189: output.read() and Poll::Ready(Some(..))
PollRead ==
    /\ tk_pc = "pt_read"
    /\ tk_reads' = tk_reads + 1
    /\ tk_read_early' = (tk_read_early \/ ~Has(tk_state, COMPLETED))
    /\ PollReturns("Some")
    /\ UNCHANGED <<tk_state, tk_alive, tk_destroyed, tk_cancel, tk_env,
                   tk_npoll>>
    /\ UNCHANGED not_task

\* set_detached has returned: detach forgets the Task (task.rs:62), drop
\* ends (task.rs:201).
Detached ==
    /\ tk_op' = ""
    /\ tk_pc' = "gone"
    /\ tk_local' = 0
    /\ tk_alive' = FALSE

\* task.rs:119: compare_exchange_weak(SCHEDULED | TASK | REFERENCE,
\* SCHEDULED | REFERENCE), which may fail on the word it expects
DetachFast ==
    /\ tk_pc = "sd_fast"
    /\ \/ /\ tk_state = SpawnedState
          /\ tk_state' = SCHEDULED + REFERENCE
          /\ Detached
       \/ /\ tk_local' = tk_state
          /\ tk_pc' = "sd_loop"
          /\ UNCHANGED <<tk_state, tk_op, tk_alive>>
    /\ UNCHANGED <<tk_result, tk_hist, tk_env, tk_npoll>>
    /\ UNCHANGED not_task

\* task.rs:120-149: one turn of the loop of set_detached
DetachExchange ==
    /\ tk_pc = "sd_loop"
    /\ IF tk_state # tk_local
       THEN /\ tk_local' = tk_state
            /\ UNCHANGED <<tk_state, tk_op, tk_pc, tk_alive>>
       ELSE IF OutputReady(tk_local)
       THEN /\ tk_state' = Or(tk_local, CLOSED)
            /\ tk_pc' = "sd_read"
            /\ UNCHANGED <<tk_local, tk_op, tk_alive>>
       ELSE /\ tk_state' = DetachedState(tk_local)
            /\ IF Refs(tk_local) = 0
               THEN /\ tk_pc' = IF ~Has(tk_local, CLOSED)
                                THEN "sd_schedule" ELSE "sd_destroy"
                    /\ UNCHANGED <<tk_op, tk_local, tk_alive>>
               ELSE Detached
    /\ UNCHANGED <<tk_result, tk_hist, tk_env, tk_npoll>>
    /\ UNCHANGED not_task

\* task.rs:125-126: the output is read and the local word gets CLOSED
DetachRead ==
    /\ tk_pc = "sd_read"
    /\ tk_reads' = tk_reads + 1
    /\ tk_read_early' = (tk_read_early \/ ~Has(tk_state, COMPLETED))
    /\ tk_local' = Or(tk_local, CLOSED)
    /\ tk_pc' = "sd_loop"
    /\ UNCHANGED <<tk_state, tk_op, tk_alive, tk_result, tk_destroyed, tk_cancel,
                   tk_canceled, tk_env, tk_npoll>>
    /\ UNCHANGED not_task

\* task.rs:139-141: ((*header).vtable.schedule)(ptr)
DetachSchedule ==
    /\ tk_pc = "sd_schedule"
    /\ Detached
    /\ UNCHANGED <<tk_state, tk_result, tk_hist, tk_env, tk_npoll>>
    /\ UNCHANGED not_task

\* task.rs:141-143: ((*header).vtable.destroy)(ptr)
DetachDestroy ==
    /\ tk_pc = "sd_destroy"
    /\ tk_destroyed' = TRUE
    /\ Detached
    /\ UNCHANGED <<tk_state, tk_result, tk_reads, tk_read_early,
                   tk_cancel, tk_canceled, tk_env, tk_npoll>>
    /\ UNCHANGED not_task

\* The owner of the Task.
TaskSide ==
    \/ StartPoll \/ StartDetach \/ StartDrop \/ StartCancel
    \/ CancelLoad \/ CancelExchange \/ CancelSchedule \/ CancelNotify
    \/ PollLoad \/ PollRegister \/ PollClosedReload \/ PollClosedNotify
    \/ PollReload \/ PollExchange \/ PollNotify \/ PollRead
    \/ DetachFast \/ DetachExchange \/ DetachRead \/ DetachSchedule
    \/ DetachDestroy

\* The words the runnable side may leave behind when the future is run
\* (Runnable::run, runnable.rs:130-135, through the vtable): SCHEDULED and
\* RUNNING change, COMPLETED and CLOSED may be set, the awaiter may be
\* taken, references come and go.  It clears neither COMPLETED nor CLOSED
\* and leaves TASK to the Task.
RunWords ==
    { flags + refs * REFERENCE : flags \in 0..(2 * AWAITER - 1), refs \in 0..MaxRefs }

RunnableRuns(state) ==
    { w \in RunWords :
        /\ Has(w, TASK) = Has(state, TASK)
        /\ Has(state, COMPLETED) => Has(w, COMPLETED)
        /\ Has(state, CLOSED) => Has(w, CLOSED)
        /\ Has(w, AWAITER) => Has(state, AWAITER)
        /\ w # state }

RunnableRun ==
    /\ tk_rpc = "" /\ ~tk_destroyed /\ tk_nrun < MaxRunnable
    /\ tk_nrun' = tk_nrun + 1
    /\ \E w \in RunnableRuns(tk_state) : tk_state' = w
    /\ tk_rdrop' = NoDrop
    /\ UNCHANGED <<tk_op, tk_pc, tk_local, tk_alive, tk_result, tk_hist, tk_rpc,
                   tk_npoll>>
    /\ UNCHANGED not_task

\* A drop that leaves the word as it finds it.
DroppedState_NotClosed(state) == state

\* runnable.rs:152-161: the word after the loop that closes the task.
DroppedState(state) ==
    IF Has(state, COMPLETED) \/ Has(state, CLOSED) THEN state ELSE Or(state, CLOSED)

\* vtable.drop_ref: the reference of the Runnable is given back.
ReleasedState(state) == IF Refs(state) > 0 THEN state - REFERENCE ELSE state

\* runnable.rs:152-162: Drop for Runnable closes a task that is neither
\* COMPLETED nor CLOSED, and drops the future.  The Runnable holds the
\* reference it gives back at runnable.rs:167.
RunnableDropClose ==
    /\ tk_rpc = "" /\ ~tk_destroyed /\ tk_nrun < MaxRunnable
    /\ Refs(tk_state) > 0
    /\ tk_nrun' = tk_nrun + 1
    /\ tk_state' = DroppedState(tk_state)
    /\ tk_rpc' = "unschedule"
    /\ tk_rdrop' = [NoDrop EXCEPT !.before = tk_state, !.closed = tk_state']
    /\ UNCHANGED <<tk_op, tk_pc, tk_local, tk_alive, tk_result, tk_hist, tk_npoll>>
    /\ UNCHANGED not_task

\* runnable.rs:163: fetch_and(!SCHEDULED)
RunnableDropUnschedule ==
    /\ tk_rpc = "unschedule"
    /\ tk_state' = AndNot(tk_state, SCHEDULED)
    /\ tk_rpc' = IF Has(tk_state, AWAITER) THEN "notify" ELSE "drop_ref"
    /\ tk_rdrop' = [tk_rdrop EXCEPT !.unscheduling = tk_state,
                                    !.unscheduled = tk_state']
    /\ UNCHANGED <<tk_op, tk_pc, tk_local, tk_alive, tk_result, tk_hist, tk_npoll,
                   tk_nrun>>
    /\ UNCHANGED not_task

\* runnable.rs:164-166: (*header).notify(None)
RunnableDropNotify ==
    /\ tk_rpc = "notify"
    /\ tk_state' = HeaderNotify(tk_state)
    /\ tk_rpc' = "drop_ref"
    /\ tk_rdrop' = [tk_rdrop EXCEPT !.nnotif = @ + 1]
    /\ UNCHANGED <<tk_op, tk_pc, tk_local, tk_alive, tk_result, tk_hist, tk_npoll,
                   tk_nrun>>
    /\ UNCHANGED not_task

\* runnable.rs:167: ((*header).vtable.drop_ref)(ptr), which destroys the
\* task when it gives back the last reference and the Task is gone
RunnableDropRef ==
    /\ tk_rpc = "drop_ref"
    /\ tk_state' = ReleasedState(tk_state)
    /\ tk_rpc' = ""
    /\ tk_destroyed' = (tk_destroyed \/ (Refs(tk_state') = 0 /\ ~Has(tk_state', TASK)))
    /\ tk_rdrop' = [tk_rdrop EXCEPT !.done = TRUE,
                                    !.released = Refs(tk_state) - Refs(tk_state'),
                                    !.npoll = tk_npoll]
    /\ UNCHANGED <<tk_op, tk_pc, tk_local, tk_alive, tk_result, tk_reads,
                   tk_read_early, tk_cancel, tk_canceled, tk_npoll, tk_nrun>>
    /\ UNCHANGED not_task

\* The runnable side.
RunnableSide ==
    \/ RunnableRun
    \/ RunnableDropClose
    \/ RunnableDropUnschedule
    \/ RunnableDropNotify
    \/ RunnableDropRef

\* runnable.rs:92-106: spawn has returned the Runnable and the Task
TaskInit ==
    /\ tk_state = SpawnedState
    /\ tk_op = ""
    /\ tk_pc = "idle"
    /\ tk_local = 0
    /\ tk_alive = TRUE
    /\ tk_result = ""
    /\ tk_reads = 0
    /\ tk_read_early = FALSE
    /\ tk_rpc = ""
    /\ tk_rdrop = NoDrop
    /\ tk_destroyed = FALSE
    /\ tk_cancel = NoCancel
    /\ tk_canceled = NoCanceled
    /\ tk_npoll = 0
    /\ tk_nrun = 0

(***************************************************************************)
(* OnceCell (async/src/oncecell.rs).  The unsync cell is used by one       *)
(* thread, whose initializers may call the cell they initialise; the sync  *)
(* cell is shared by threads, and its initializers do not call it.         *)
(***************************************************************************)
OnceKinds == {"unsync", "sync"}
OnceValues == 1..MaxOnceValue
OnceThreads == 1..MaxOnceThreads
OnceInitOps == {"get_or_init", "get_or_try_init"}

NoCall == [op |-> "", arg |-> 0, result |-> "", carried |-> 0,
           before |-> None, after |-> None, reentered |-> FALSE]

\* What an initializer may return: get_or_init wraps its closure in Ok
\* (oncecell.rs:98-99, 271-272), the closure of get_or_try_init may fail.
InitResults(op) ==
    [ok : {TRUE}, value : OnceValues]
        \cup (IF op = "get_or_try_init" THEN {[ok |-> FALSE, value |-> 0]} ELSE {})

\* oncecell.rs:76-78 and 243-249: get
OnceGet(inner) == IF inner.some THEN Some(inner.value) ELSE None

\* A set that stores whatever the cell holds.
SetInner_Overwrites(inner, value) == Some(value)

\* oncecell.rs:84-92: the slot after set
SetInner(inner, value) == IF inner.some THEN inner ELSE Some(value)

\* oncecell.rs:86-91: set returns Ok(()) when it stored the value
SetIsOk(inner) == ~inner.some

\* oncecell.rs:105-107 and 277-279: the initializer is reached only when
\* get() found nothing.
ReachesInitializer(inner) == ~OnceGet(inner).some

\* imp::OnceCell::initialize: the initializer runs only in an empty cell.
ImpRunsInitializer(inner) == ~inner.some

\* imp::OnceCell::initialize: the cell after the call, res being what the
\* initializer returns if it runs.
ImpInitialize(inner, res) ==
    IF ImpRunsInitializer(inner) /\ res.ok THEN Some(res.value) ELSE inner

\* history: the first Some(v) that get() returned
ObserveGet(r) == IF oc_first.some \/ ~r.some THEN oc_first ELSE r

\* The initializer that is running, if any, has called the cell.
Entered(stack) ==
    IF stack = <<>> THEN stack ELSE [stack EXCEPT ![Len(stack)].reentered = TRUE]

Returned(op, arg, result, carried, before, after, reentered) ==
    [op |-> op, arg |-> arg, result |-> result, carried |-> carried,
     before |-> before, after |-> after, reentered |-> reentered]

\* oncecell.rs:76-78
UnsyncGet ==
    /\ oc_kind = "unsync" /\ oc_ncalls < MaxOnceCalls
    /\ oc_ncalls' = oc_ncalls + 1
    /\ oc_first' = ObserveGet(OnceGet(oc_inner))
    /\ oc_last' = Returned("get", 0, IF OnceGet(oc_inner).some THEN "Some" ELSE "None",
                           IF oc_inner.some THEN oc_inner.value ELSE 0,
                           oc_inner, oc_inner, FALSE)
    /\ UNCHANGED <<oc_kind, oc_inner, oc_stack, oc_pc, oc_call, oc_ran_present>>
    /\ UNCHANGED not_once

\* oncecell.rs:84-92
UnsyncSet ==
    /\ oc_kind = "unsync" /\ oc_ncalls < MaxOnceCalls
    /\ \E value \in OnceValues :
        /\ oc_inner' = SetInner(oc_inner, value)
        /\ oc_last' = Returned("set", value, IF SetIsOk(oc_inner) THEN "Ok" ELSE "Err",
                               IF SetIsOk(oc_inner) THEN 0 ELSE value,
                               oc_inner, oc_inner', FALSE)
    /\ oc_ncalls' = oc_ncalls + 1
    /\ oc_stack' = Entered(oc_stack)
    /\ UNCHANGED <<oc_kind, oc_pc, oc_call, oc_first, oc_ran_present>>
    /\ UNCHANGED not_once

\* oncecell.rs:94-107: get_or_init and get_or_try_init up to the call of f
UnsyncGetOrTryInit ==
    /\ oc_kind = "unsync" /\ oc_ncalls < MaxOnceCalls
    /\ ReachesInitializer(oc_inner) => Len(oc_stack) < MaxOnceDepth
    /\ oc_ncalls' = oc_ncalls + 1
    /\ oc_first' = ObserveGet(OnceGet(oc_inner))
    /\ oc_ran_present' = (oc_ran_present \/ (ReachesInitializer(oc_inner) /\ oc_inner.some))
    /\ \E op \in OnceInitOps :
        IF ReachesInitializer(oc_inner)
        THEN /\ oc_stack' = Append(Entered(oc_stack),
                                   [op |-> op, before |-> oc_inner, reentered |-> FALSE])
             /\ UNCHANGED oc_last
        ELSE /\ oc_stack' = Entered(oc_stack)
             /\ oc_last' = Returned(op, 0, "Ok", OnceGet(oc_inner).value,
                                    oc_inner, oc_inner, FALSE)
    /\ UNCHANGED <<oc_kind, oc_inner, oc_pc, oc_call>>
    /\ UNCHANGED not_once

\* oncecell.rs:108-110: f returns; its error is passed on, its value is
\* set, and a set that fails is the panic "reentrant init", which unwinds
\* through the initializers that are running.
UnsyncInitReturns ==
    /\ oc_kind = "unsync" /\ oc_stack # <<>>
    /\ LET top == oc_stack[Len(oc_stack)]
           rest == SubSeq(oc_stack, 1, Len(oc_stack) - 1)
       IN \E res \in InitResults(top.op) :
            IF ~res.ok
            THEN /\ oc_inner' = oc_inner
                 /\ oc_stack' = rest
                 /\ oc_first' = oc_first
                 /\ oc_last' = Returned(top.op, 0, "Err", 0, top.before, oc_inner,
                                        top.reentered)
            ELSE /\ oc_inner' = SetInner(oc_inner, res.value)
                 /\ IF SetIsOk(oc_inner)
                    THEN /\ oc_stack' = rest
                         /\ oc_first' = ObserveGet(OnceGet(oc_inner'))
                         /\ oc_last' = Returned(top.op, 0, "Ok", OnceGet(oc_inner').value,
                                                top.before, oc_inner', top.reentered)
                    ELSE /\ oc_stack' = <<>>
                         /\ oc_first' = oc_first
                         /\ oc_last' = Returned(top.op, 0, "panic", 0, top.before,
                                                oc_inner', top.reentered)
    /\ UNCHANGED <<oc_kind, oc_pc, oc_call, oc_ran_present, oc_ncalls>>
    /\ UNCHANGED not_once

\* oncecell.rs:243-249
SyncGet ==
    /\ oc_kind = "sync" /\ oc_ncalls < MaxOnceCalls
    /\ \E t \in OnceThreads : oc_pc[t] = "idle"
    /\ oc_ncalls' = oc_ncalls + 1
    /\ oc_first' = ObserveGet(OnceGet(oc_inner))
    /\ oc_last' = Returned("get", 0, IF OnceGet(oc_inner).some THEN "Some" ELSE "None",
                           IF oc_inner.some THEN oc_inner.value ELSE 0,
                           oc_inner, oc_inner, FALSE)
    /\ UNCHANGED <<oc_kind, oc_inner, oc_stack, oc_pc, oc_call, oc_ran_present>>
    /\ UNCHANGED not_once

\* oncecell.rs:259-266, 268-279: set, get_or_init and get_or_try_init up to
\* the call of initialize; the closure of set gives the value away only
\* when it runs, so a set that finds a value returns it in Err.
SyncBegin ==
    /\ oc_kind = "sync" /\ oc_ncalls < MaxOnceCalls
    /\ oc_ncalls' = oc_ncalls + 1
    /\ oc_first' = ObserveGet(OnceGet(oc_inner))
    /\ \E t \in OnceThreads, op \in OnceInitOps \cup {"set"}, value \in OnceValues :
        /\ oc_pc[t] = "idle"
        /\ LET arg == IF op = "set" THEN value ELSE 0
           IN IF ReachesInitializer(oc_inner)
              THEN /\ oc_pc' = [oc_pc EXCEPT ![t] = "initialize"]
                   /\ oc_call' = [oc_call EXCEPT ![t] = [op |-> op, arg |-> arg]]
                   /\ UNCHANGED oc_last
              ELSE /\ oc_last' = IF op = "set"
                                 THEN Returned(op, arg, "Err", arg, oc_inner, oc_inner, FALSE)
                                 ELSE Returned(op, arg, "Ok", OnceGet(oc_inner).value,
                                               oc_inner, oc_inner, FALSE)
                   /\ UNCHANGED <<oc_pc, oc_call>>
    /\ UNCHANGED <<oc_kind, oc_inner, oc_stack, oc_ran_present>>
    /\ UNCHANGED not_once

\* oncecell.rs:280-282 and 262-265: initialize, and what the call returns
SyncInitialize ==
    /\ oc_kind = "sync"
    /\ \E t \in OnceThreads :
        /\ oc_pc[t] = "initialize"
        /\ LET call == oc_call[t]
               ran == ImpRunsInitializer(oc_inner)
           IN \E res \in (IF call.op = "set" THEN {[ok |-> TRUE, value |-> call.arg]}
                                             ELSE InitResults(call.op)) :
                /\ oc_inner' = ImpInitialize(oc_inner, res)
                /\ oc_ran_present' = (oc_ran_present \/ (ran /\ oc_inner.some))
                /\ oc_first' = IF ran /\ ~res.ok THEN oc_first
                               ELSE ObserveGet(OnceGet(oc_inner'))
                /\ oc_last' =
                     IF call.op = "set"
                     THEN Returned("set", call.arg, IF ran THEN "Ok" ELSE "Err",
                                   IF ran THEN 0 ELSE call.arg, oc_inner, oc_inner', FALSE)
                     ELSE IF ran /\ ~res.ok
                     THEN Returned(call.op, 0, "Err", 0, oc_inner, oc_inner', FALSE)
                     ELSE Returned(call.op, 0, "Ok", OnceGet(oc_inner').value,
                                   oc_inner, oc_inner', FALSE)
        /\ oc_pc' = [oc_pc EXCEPT ![t] = "idle"]
        /\ oc_call' = [oc_call EXCEPT ![t] = [op |-> "", arg |-> 0]]
    /\ UNCHANGED <<oc_kind, oc_stack, oc_ncalls>>
    /\ UNCHANGED not_once

\* oncecell.rs:72-74 and 208-210: new
OnceNew(kind) ==
    /\ oc_kind = kind
    /\ oc_inner = None
    /\ oc_stack = <<>>
    /\ oc_pc = [t \in OnceThreads |-> "idle"]
    /\ oc_call = [t \in OnceThreads |-> [op |-> "", arg |-> 0]]
    /\ oc_first = None
    /\ oc_last = NoCall
    /\ oc_ran_present = FALSE
    /\ oc_ncalls = 0

OnceInit == OnceNew("unsync")

(***************************************************************************)
(* The receive buffer and the bytes of a datagram.  The derived codec of   *)
(* PublisherToSubscriber is not part of these sources: the wire form below *)
(* is a tag and the fields in declaration order, a byte vector as its      *)
(* length and its bytes, one position for each fixed-size field.  The tag  *)
(* values are the model's.  Chunk.ts has no part in the receive loop and   *)
(* is left out.                                                            *)
(***************************************************************************)
TagHeartbeat == 1
TagChunk == 2

\* protocol.rs:42-46, 32-40
EncodeP2S(msg) ==
    IF msg.type = "Heartbeat"
    THEN <<TagHeartbeat, msg.id>>
    ELSE <<TagChunk, msg.id, msg.total_bytes, msg.total, msg.index, Len(msg.data)>>
            \o msg.data

\* The decoder reads from the start of the buffer as far as the encoding
\* goes and fails when a tag is unknown or the buffer ends early.
DecodeP2S(buffer) ==
    IF Len(buffer) >= 2 /\ buffer[1] = TagHeartbeat
    THEN Some(Heartbeat(buffer[2]))
    ELSE IF /\ Len(buffer) >= 6
            /\ buffer[1] = TagChunk
            /\ Len(buffer) >= 6 + buffer[6]
    THEN Some(Chunk(buffer[2], buffer[3], buffer[4], buffer[5],
                    SubSeq(buffer, 7, 6 + buffer[6])))
    ELSE None

\* The datagrams that encode a heartbeat or a chunk of a message in flight.
WholeDatagrams ==
    { EncodeP2S(m) : m \in { Heartbeat(id) : id \in MessageIds } \cup MessageChunks }

\* Their beginnings, the empty datagram among them.
TruncatedDatagrams ==
    UNION { { SubSeq(w, 1, n) : n \in 0..(Len(w) - 1) } : w \in WholeDatagrams }

\* Datagrams with a tag no message has.
MalformedDatagrams == { <<TagChunk + 1>> \o SubSeq(w, 2, Len(w)) : w \in WholeDatagrams }

\* subscriber.rs:124 is vec![0u8; 65536]: longer than any datagram.
RecvBufferInit == Zeros(6 + CHUNK_SIZE + 1)

\* subscriber.rs:131: recv_from writes the datagram over the beginning of
\* the buffer and leaves the rest as it was.
RecvFrom(buffer, dgram) ==
    [k \in 1..Len(buffer) |-> IF k <= Len(dgram) THEN dgram[k] ELSE buffer[k]]

\* subscriber.rs:133, 208-211: nothing was decoded.
RecvUndecoded(address) ==
    /\ pts' = [address |-> address, msg |-> [type |-> "None"]]
    /\ prev' = Snapshot
    /\ nrecv' = nrecv + 1
    /\ UNCHANGED <<state_id, state_buffer, state_received, ack_indices,
                   recv_alive, on_data, sub_sent, seen, copied, delivered,
                   ack_ids>>

\* subscriber.rs:128-212: one turn of the loop.  decode is given the whole
\* buffer; the length recv_from returned is not used.
RecvDatagram(dgram, address) ==
    /\ recv_alive
    /\ nrecv < MaxRaw
    /\ recv_buffer' = RecvFrom(recv_buffer, dgram)
    /\ raw' = dgram
    /\ LET decoded == DecodeP2S(recv_buffer')
       IN  IF ~decoded.some THEN RecvUndecoded(address)
           ELSE IF decoded.value.type = "Heartbeat"
           THEN RecvHeartbeat(decoded.value.id, address)
           ELSE RecvChunk(decoded.value)
    /\ UNCHANGED not_raw

ReceiveWhole ==
    \E dgram \in WholeDatagrams, address \in Addresses : RecvDatagram(dgram, address)

ReceiveTruncated ==
    \E dgram \in TruncatedDatagrams, address \in Addresses : RecvDatagram(dgram, address)

ReceiveMalformed ==
    \E dgram \in MalformedDatagrams, address \in Addresses : RecvDatagram(dgram, address)

\* subscriber.rs:124
RawInit ==
    /\ recv_buffer = RecvBufferInit
    /\ raw = <<>>

(***************************************************************************)
(* run_socket_receiver step by step: where the task waits on the socket    *)
(* and where it holds the mutex of Subscriber.state.  No other task of     *)
(* these sources locks that mutex.                                         *)
(***************************************************************************)
\* The positions at which the task is suspended in a socket operation.
SocketOps == {"recv_from", "send_to"}

\* subscriber.rs:131-135: recv_from returns a datagram and it is decoded.
LockRecvFrom ==
    /\ recv_pc = "recv_from"
    /\ recv_alive
    /\ nrecv < MaxLockRecv
    /\ \/ \E id \in MessageIds, address \in Addresses :
            /\ pending' = [address |-> address, msg |-> Heartbeat(id)]
            /\ recv_pc' = "heartbeat"
       \/ \E chunk \in MessageChunks :
            /\ pending' = [address |-> NoAddress, msg |-> chunk]
            /\ recv_pc' = "chunk"
    /\ UNCHANGED state_lock
    /\ UNCHANGED <<sub_vars, not_lock>>

\* subscriber.rs:140, 161: let state = self.state.lock().await
LockState ==
    /\ recv_pc \in {"heartbeat", "chunk"}
    /\ state_lock = ""
    /\ state_lock' = "socket_receiver"
    /\ recv_pc' = IF recv_pc = "chunk" THEN "chunk_locked"
                  ELSE IF HeartbeatIsCurrent(pending.msg.id) THEN "send_to"
                  ELSE "heartbeat_locked"
    /\ UNCHANGED pending
    /\ UNCHANGED <<sub_vars, not_lock>>

\* subscriber.rs:143-154: send_to returns, the accumulator is emptied and
\* the guard is dropped at the end of the block.
LockHeartbeatSent ==
    /\ recv_pc = "send_to"
    /\ state_lock = "socket_receiver"
    /\ RecvHeartbeat(pending.msg.id, pending.address)
    /\ state_lock' = ""
    /\ recv_pc' = "recv_from"
    /\ UNCHANGED pending
    /\ UNCHANGED not_lock

\* subscriber.rs:143, 154: the heartbeat is not of the current message.
LockHeartbeatIgnored ==
    /\ recv_pc = "heartbeat_locked"
    /\ state_lock = "socket_receiver"
    /\ RecvHeartbeat(pending.msg.id, pending.address)
    /\ state_lock' = ""
    /\ recv_pc' = "recv_from"
    /\ UNCHANGED pending
    /\ UNCHANGED not_lock

\* subscriber.rs:164-206: the chunk is handled and the guard is dropped, at
\* the end of the block or by the panic.
LockChunkHandled ==
    /\ recv_pc = "chunk_locked"
    /\ state_lock = "socket_receiver"
    /\ RecvChunk(pending.msg)
    /\ state_lock' = ""
    /\ recv_pc' = IF recv_alive' THEN "recv_from" ELSE "panicked"
    /\ UNCHANGED pending
    /\ UNCHANGED not_lock

\* subscriber.rs:66-70
LockInit ==
    /\ recv_pc = "recv_from"
    /\ state_lock = ""
    /\ pending = [address |-> NoAddress, msg |-> [type |-> "None"]]

(***************************************************************************)
(* Publisher::run_participant_connection                                   *)
(***************************************************************************)
SubIds == 1..MaxSub
SubRefs == [address : Addresses]
Tables == UNION { [D -> SubRefs] : D \in SUBSET SubIds }

\* A discovery client that adds the received entries to its table.
ApplyInit_Merges(old, new) ==
    [k \in DOMAIN old \cup DOMAIN new |-> IF k \in DOMAIN new THEN new[k] ELSE old[k]]

\* publisher.rs:87: state.subs = subs
ApplyInit(old, new) == new

\* A discovery client that announces itself on its first connection only.
Announce_Once(n) == IF n = 0 THEN 1 ELSE n

\* publisher.rs:73-75, subscriber.rs:84-87: send_message(InitPub / InitSub)
\* on the connection just opened.
Announce(n) == n + 1

\* A publisher that goes on reading after InitFailed.
PubInitFailedNext_Reads == "read"

\* publisher.rs:92-94: panic!() ends the task that runs the discovery loop.
PubInitFailedNext == "panicked"

\* publisher.rs:70-75: connect and announce.
Connect ==
    /\ part_pc = "connect"
    /\ part_connected < MaxConnect
    /\ part_connected' = part_connected + 1
    /\ announced' = Announce(announced)
    /\ part_pc' = "read"
    /\ UNCHANGED <<subs, ptp, prev_subs, nread>>
    /\ UNCHANGED <<part_closed, part_failed, part_slept, part_panic>>
    /\ UNCHANGED <<sub_vars, feed_vars, send_vars, more_vars>>

\* publisher.rs:70: expect() on a failed connect ends the task.
ConnectFails ==
    /\ part_pc = "connect"
    /\ part_failed' = part_failed + 1
    /\ part_pc' = "panicked"
    /\ part_panic' = "cannot connect to participant"
    /\ UNCHANGED <<subs, ptp, prev_subs, announced, nread>>
    /\ UNCHANGED <<part_connected, part_closed, part_slept>>
    /\ UNCHANGED <<sub_vars, feed_vars, send_vars, more_vars>>

\* publisher.rs:73-75, protocol.rs:106-110: the connection is open and the
\* write of the announcement fails; expect() ends the task.
AnnounceFails ==
    /\ part_pc = "connect"
    /\ part_connected < MaxConnect
    /\ part_connected' = part_connected + 1
    /\ part_pc' = "panicked"
    /\ part_panic' = "cannot send message"
    /\ UNCHANGED <<subs, ptp, prev_subs, announced, nread>>
    /\ UNCHANGED <<part_closed, part_failed, part_slept>>
    /\ UNCHANGED <<sub_vars, feed_vars, send_vars, more_vars>>

CanRead == part_pc = "read" /\ nread < MaxRead

\* publisher.rs:85-91
ReadInit ==
    /\ CanRead
    /\ \E table \in Tables : \E w \in HashMapEncode(table) :
         LET decoded == HashMapDecode(w)
         IN  /\ decoded.some
             /\ subs' = ApplyInit(subs, decoded.value)
             /\ ptp' = [type |-> "Init", table |-> table]
    /\ prev_subs' = subs
    /\ nread' = nread + 1
    /\ UNCHANGED <<part_pc, announced>>
    /\ UNCHANGED <<part_connected, part_closed, part_failed, part_slept, part_panic>>
    /\ UNCHANGED <<sub_vars, feed_vars, send_vars, more_vars>>

\* publisher.rs:92-94
ReadInitFailed ==
    /\ CanRead
    /\ ptp' = [type |-> "InitFailed"]
    /\ prev_subs' = subs
    /\ nread' = nread + 1
    /\ part_pc' = PubInitFailedNext
    /\ part_panic' = IF part_pc' = "panicked"
                     THEN "publisher initialization failed!" ELSE part_panic
    /\ UNCHANGED <<subs, announced>>
    /\ UNCHANGED <<part_connected, part_closed, part_failed, part_slept>>
    /\ UNCHANGED <<sub_vars, feed_vars, send_vars, more_vars>>

\* publisher.rs:95-97: the message is printed.
ReadNewSub ==
    /\ CanRead
    /\ \E id \in SubIds, ref \in SubRefs :
         ptp' = [type |-> "NewSub", id |-> id, ref |-> ref]
    /\ prev_subs' = subs
    /\ nread' = nread + 1
    /\ UNCHANGED <<subs, part_pc, announced>>
    /\ UNCHANGED <<part_connected, part_closed, part_failed, part_slept, part_panic>>
    /\ UNCHANGED <<sub_vars, feed_vars, send_vars, more_vars>>

\* publisher.rs:98-100: the message is printed.
ReadDropSub ==
    /\ CanRead
    /\ \E id \in SubIds : ptp' = [type |-> "DropSub", id |-> id]
    /\ prev_subs' = subs
    /\ nread' = nread + 1
    /\ UNCHANGED <<subs, part_pc, announced>>
    /\ UNCHANGED <<part_connected, part_closed, part_failed, part_slept, part_panic>>
    /\ UNCHANGED <<sub_vars, feed_vars, send_vars, more_vars>>

\* publisher.rs:79-82: a read of length 0, or an error, leaves the read loop.
ReadClosed ==
    /\ part_pc = "read"
    /\ part_pc' = "sleep"
    /\ part_closed' = part_closed + 1
    /\ UNCHANGED <<subs, ptp, prev_subs, announced, nread>>
    /\ UNCHANGED <<part_connected, part_failed, part_slept, part_panic>>
    /\ UNCHANGED <<sub_vars, feed_vars, send_vars, more_vars>>

\* publisher.rs:108
Sleep ==
    /\ part_pc = "sleep"
    /\ part_pc' = "connect"
    /\ part_slept' = part_slept + RECONNECT_DELAY_SECS
    /\ UNCHANGED <<subs, ptp, prev_subs, announced, nread>>
    /\ UNCHANGED <<part_connected, part_closed, part_failed, part_panic>>
    /\ UNCHANGED <<sub_vars, feed_vars, send_vars, more_vars>>

\* What the discovery loop has counted when it starts.
PartHistInit ==
    /\ part_connected = 0
    /\ part_closed = 0
    /\ part_failed = 0
    /\ part_slept = 0
    /\ part_panic = ""

\* publisher.rs:44-58
PubInit ==
    /\ subs = EmptyMap
    /\ part_pc = "connect"
    /\ ptp = [type |-> "None"]
    /\ prev_subs = EmptyMap
    /\ announced = 0
    /\ nread = 0
    /\ PartHistInit

\* A process that holds no publisher.
PubAbsent ==
    /\ subs = EmptyMap
    /\ part_pc = "absent"
    /\ ptp = [type |-> "None"]
    /\ prev_subs = EmptyMap
    /\ announced = 0
    /\ nread = 0
    /\ PartHistInit

(***************************************************************************)
(* Subscriber::run_participant_connection                                  *)
(***************************************************************************)
\* The reassembly state, and how many datagrams had been handled.
SubSnapshot ==
    [id |-> state_id, buffer |-> state_buffer, received |-> state_received,
     acks |-> ack_indices, nrecv |-> nrecv]

\* A subscriber whose discovery task ends on InitFailed, as the publisher's.
SubInitFailedNext_Panics == "panicked"

\* subscriber.rs:98-102: the reason is printed and the read loop goes on.
SubInitFailedNext == "read"

\* subscriber.rs:81-87: connect and announce.
SubConnect ==
    /\ sp_pc = "connect"
    /\ sp_connected + sp_failed < MaxConnect
    /\ sp_connected' = sp_connected + 1
    /\ sp_announced' = Announce(sp_announced)
    /\ sp_pc' = "read"
    /\ sp_prev' = SubSnapshot
    /\ UNCHANGED <<p2s, sp_nread, sp_closed, sp_failed, sp_slept, sp_panic>>
    /\ UNCHANGED not_disc

\* subscriber.rs:81, 109-111: a failed connect is printed.
SubConnectFails ==
    /\ sp_pc = "connect"
    /\ sp_connected + sp_failed < MaxConnect
    /\ sp_failed' = sp_failed + 1
    /\ sp_pc' = "sleep"
    /\ sp_prev' = SubSnapshot
    /\ UNCHANGED <<p2s, sp_announced, sp_nread, sp_connected, sp_closed, sp_slept, sp_panic>>
    /\ UNCHANGED not_disc

\* subscriber.rs:84-87, protocol.rs:106-110: the connection is open and the
\* write of the announcement fails; expect() ends the task.
SubAnnounceFails ==
    /\ sp_pc = "connect"
    /\ sp_connected + sp_failed < MaxConnect
    /\ sp_connected' = sp_connected + 1
    /\ sp_pc' = "panicked"
    /\ sp_panic' = "cannot send message"
    /\ sp_prev' = SubSnapshot
    /\ UNCHANGED <<p2s, sp_announced, sp_nread, sp_closed, sp_failed, sp_slept>>
    /\ UNCHANGED not_disc

SubCanRead == sp_pc = "read" /\ sp_nread < MaxRead

\* subscriber.rs:97
SubReadInit ==
    /\ SubCanRead
    /\ p2s' = [type |-> "Init"]
    /\ sp_nread' = sp_nread + 1
    /\ sp_prev' = SubSnapshot
    /\ UNCHANGED <<sp_pc, sp_announced, sp_connected, sp_closed, sp_failed, sp_slept, sp_panic>>
    /\ UNCHANGED not_disc

\* subscriber.rs:98-102
SubReadInitFailed ==
    /\ SubCanRead
    /\ p2s' = [type |-> "InitFailed", reason |-> "DomainMismatch"]
    /\ sp_nread' = sp_nread + 1
    /\ sp_pc' = SubInitFailedNext
    /\ sp_prev' = SubSnapshot
    /\ UNCHANGED <<sp_announced, sp_connected, sp_closed, sp_failed, sp_slept, sp_panic>>
    /\ UNCHANGED not_disc

\* subscriber.rs:91-94: a read of length 0, or an error, leaves the read loop.
SubReadClosed ==
    /\ sp_pc = "read"
    /\ sp_pc' = "sleep"
    /\ sp_closed' = sp_closed + 1
    /\ sp_prev' = SubSnapshot
    /\ UNCHANGED <<p2s, sp_announced, sp_nread, sp_connected, sp_failed, sp_slept, sp_panic>>
    /\ UNCHANGED not_disc

\* subscriber.rs:114
SubSleep ==
    /\ sp_pc = "sleep"
    /\ sp_pc' = "connect"
    /\ sp_slept' = sp_slept + RECONNECT_DELAY_SECS
    /\ sp_prev' = SubSnapshot
    /\ UNCHANGED <<p2s, sp_announced, sp_nread, sp_connected, sp_closed, sp_failed, sp_panic>>
    /\ UNCHANGED not_disc

SubPartHistInit ==
    /\ p2s = [type |-> "None"]
    /\ sp_prev = [id |-> 0, buffer |-> <<>>, received |-> <<>>, acks |-> <<>>,
                  nrecv |-> 0]
    /\ sp_announced = 0
    /\ sp_nread = 0
    /\ sp_connected = 0
    /\ sp_closed = 0
    /\ sp_failed = 0
    /\ sp_slept = 0
    /\ sp_panic = ""

\* subscriber.rs:60-64
SubPartInit == sp_pc = "connect" /\ SubPartHistInit

\* A process that holds no subscriber.
SubAbsent == sp_pc = "absent" /\ SubPartHistInit

(***************************************************************************)
(* The control stream as bytes.  The derived codec of                      *)
(* ParticipantToPublisher is not part of these sources: the wire form      *)
(* below is a tag and the fields in declaration order, one position for    *)
(* each fixed-size field, the table as hashmap.rs writes it.  The tag      *)
(* values are the model's.                                                 *)
(***************************************************************************)
TagInit == 1
TagInitFailed == 2
TagNewSub == 3
TagDropSub == 4

\* hashmap.rs:40-48: the length, then key and value of each entry.
WireTokens(w) ==
    [k \in 1..(1 + 2 * w.len) |->
        IF k = 1 THEN w.len
        ELSE IF k % 2 = 0 THEN w.items[k \div 2][1]
        ELSE w.items[(k - 1) \div 2][2].address]

\* protocol.rs:92-98: the byte strings that encode a control message.
EncodeP2P(msg) ==
    CASE msg.type = "Init" ->
            { <<TagInit>> \o WireTokens(w) : w \in HashMapEncode(msg.table) }
      [] msg.type = "InitFailed" -> { <<TagInitFailed>> }
      [] msg.type = "NewSub" -> { <<TagNewSub, msg.id, msg.ref.address>> }
      [] msg.type = "DropSub" -> { <<TagDropSub, msg.id>> }

\* The decoder reads one message from the start of the buffer.
DecodeP2P(buffer) ==
    IF Len(buffer) >= 2 /\ buffer[1] = TagInit /\ Len(buffer) >= 2 + 2 * buffer[2]
    THEN LET len == buffer[2]
             w == [len |-> len,
                   items |-> [i \in 1..len |->
                                <<buffer[1 + 2 * i], [address |-> buffer[2 + 2 * i]]>>]]
             decoded == HashMapDecode(w)
         IN  IF decoded.some
             THEN Some([type |-> "Init", table |-> decoded.value])
             ELSE None
    ELSE IF Len(buffer) >= 1 /\ buffer[1] = TagInitFailed
    THEN Some([type |-> "InitFailed"])
    ELSE IF Len(buffer) >= 3 /\ buffer[1] = TagNewSub
    THEN Some([type |-> "NewSub", id |-> buffer[2], ref |-> [address |-> buffer[3]]])
    ELSE IF Len(buffer) >= 2 /\ buffer[1] = TagDropSub
    THEN Some([type |-> "DropSub", id |-> buffer[2]])
    ELSE None

\* The control messages the Participant writes.
ControlMessages ==
    { [type |-> "Init", table |-> table] : table \in Tables }
        \cup { [type |-> "InitFailed"] }
        \cup { [type |-> "NewSub", id |-> id, ref |-> ref] : id \in SubIds, ref \in SubRefs }
        \cup { [type |-> "DropSub", id |-> id] : id \in SubIds }

\* publisher.rs:78 is vec![0u8; 65536]: room for more than one message.
PartBufferInit == Zeros(2 * (2 + 2 * MaxSub))

\* The Participant writes a control message to the stream.
ParticipantWrites ==
    /\ part_pc = "read"
    /\ Len(part_written) < MaxWrite
    /\ \E msg \in ControlMessages : \E bytes \in EncodeP2P(msg) :
         /\ part_stream' = part_stream \o bytes
         /\ part_written' = Append(part_written, msg)
    /\ UNCHANGED <<part_buffer, applied>>
    /\ UNCHANGED <<part_vars, not_stream>>

\* publisher.rs:79-103: read returns some of the bytes written, which go to
\* the beginning of recv_buffer; one message is decoded from the start of
\* the buffer, whatever the length read, and the matching arm runs.
StreamRead ==
    /\ part_pc = "read"
    /\ part_stream # <<>>
    /\ \E n \in 1..Min(Len(part_stream), Len(part_buffer)) :
         /\ part_buffer' = RecvFrom(part_buffer, SubSeq(part_stream, 1, n))
         /\ part_stream' = SubSeq(part_stream, n + 1, Len(part_stream))
    /\ LET decoded == DecodeP2P(part_buffer')
       IN  IF ~decoded.some
           THEN UNCHANGED <<subs, part_pc, ptp, prev_subs, nread, part_panic, applied>>
           ELSE /\ applied' = Append(applied, decoded.value)
                /\ ptp' = decoded.value
                /\ prev_subs' = subs
                /\ nread' = nread + 1
                /\ subs' = IF decoded.value.type = "Init"
                           THEN ApplyInit(subs, decoded.value.table)
                           ELSE subs
                /\ part_pc' = IF decoded.value.type = "InitFailed"
                              THEN PubInitFailedNext
                              ELSE part_pc
                /\ part_panic' = IF part_pc' = "panicked"
                                 THEN "publisher initialization failed!"
                                 ELSE part_panic
    /\ UNCHANGED <<announced, part_connected, part_closed, part_failed, part_slept>>
    /\ UNCHANGED part_written
    /\ UNCHANGED not_stream

\* publisher.rs:78
StreamInit ==
    /\ part_stream = <<>>
    /\ part_written = <<>>
    /\ part_buffer = PartBufferInit
    /\ applied = <<>>

(***************************************************************************)
(* Publisher::send, and what surrounds it: the clock and the Acks that     *)
(* subscribers address to the publisher's socket.                          *)
(***************************************************************************)
\* The payloads handed to send.
SendData == { Pattern(1, n) : n \in 0..MaxLen }

\* protocol.rs:50
Ack(sub, id, indices) == [type |-> "Ack", sub |-> sub, id |-> id, indices |-> indices]

\* publisher.rs:114-116: the body is empty; the call returns at once.
Send ==
    /\ Len(send_calls) < MaxSend
    /\ \E data \in SendData :
         send_calls' = Append(send_calls, [data |-> data, at |-> now, subs |-> subs])
    /\ UNCHANGED <<pub_sent, pub_inbox, now>>
    /\ UNCHANGED <<sub_vars, feed_vars, part_vars, more_vars>>

\* An Ack reaches the publisher's socket.  No code of the publisher reads it.
AckArrives ==
    /\ Len(pub_inbox) < MaxAcks
    /\ \E sub \in SubIds, id \in MessageIds, n \in 0..MaxAckLen :
         pub_inbox' = Append(pub_inbox,
                             [msg |-> Ack(sub, id, [k \in 1..n |-> k - 1]), at |-> now])
    /\ UNCHANGED <<send_calls, pub_sent, now>>
    /\ UNCHANGED <<sub_vars, feed_vars, part_vars, more_vars>>

Tick ==
    /\ now + TickUsec <= MaxTime
    /\ now' = now + TickUsec
    /\ UNCHANGED <<send_calls, pub_sent, pub_inbox>>
    /\ UNCHANGED <<sub_vars, feed_vars, part_vars, more_vars>>

SendInit ==
    /\ send_calls = <<>>
    /\ pub_sent = <<>>
    /\ pub_inbox = <<>>
    /\ now = 0

\* subscriber.rs:39 draws the subscriber's id at random.
SUBSCRIBER_ID == 7

NoMessage == [id |-> 0, data |-> <<>>]

(***************************************************************************)
(* Spec: the receive loop fed heartbeats and chunks of any of the messages *)
(* in flight, in any order.                                                *)
(***************************************************************************)
Init ==
    /\ SubInit
    /\ message = NoMessage
    /\ fed = {}
    /\ PubInit
    /\ SendInit
    /\ SubPartInit
    /\ RawInit
    /\ LockInit
    /\ StreamInit
    /\ CodecInit
    /\ WakerInit
    /\ TaskInit
    /\ OnceInit

Next == ReceiveHeartbeat \/ ReceiveChunk

Spec == Init /\ [][Next]_vars

(***************************************************************************)
(* SpecRoundTrip: one message of any payload, split into its chunks, which *)
(* reach the socket in any order and any number of times.                  *)
(***************************************************************************)
Payloads == UNION { BytesOfLen(n) : n \in 0..MaxLen }

MessageTotal == ChunkCount(Len(message.data))

\* Chunk `index` reaches the socket; the receive loop, if it still runs,
\* handles it.
FeedChunk(index) ==
    /\ fed' = fed \cup {index}
    /\ UNCHANGED <<message, part_vars, send_vars, more_vars>>
    /\ IF recv_alive
       THEN /\ nrecv < MaxFeed
            /\ RecvChunk(ChunkOf(message.id, message.data, index))
       ELSE /\ index \notin fed
            /\ UNCHANGED sub_vars

Feed == \E index \in 0..(MessageTotal - 1) : FeedChunk(index)

InitRoundTrip ==
    /\ SubInit
    /\ message \in [id : MessageIds, data : Payloads]
    /\ fed = {}
    /\ PubInit
    /\ SendInit
    /\ SubPartInit
    /\ RawInit
    /\ LockInit
    /\ StreamInit
    /\ CodecInit
    /\ WakerInit
    /\ TaskInit
    /\ OnceInit

NextRoundTrip == Feed

SpecRoundTrip == InitRoundTrip /\ [][NextRoundTrip]_vars

(***************************************************************************)
(* SpecPart: the publisher's discovery loop, fed control messages by the   *)
(* Participant.                                                            *)
(***************************************************************************)
InitPart ==
    /\ SubInit
    /\ message = NoMessage
    /\ fed = {}
    /\ PubInit
    /\ SendInit
    /\ SubPartInit
    /\ RawInit
    /\ LockInit
    /\ StreamInit
    /\ CodecInit
    /\ WakerInit
    /\ TaskInit
    /\ OnceInit

NextPart ==
    \/ Connect
    \/ ConnectFails
    \/ AnnounceFails
    \/ ReadInit
    \/ ReadInitFailed
    \/ ReadNewSub
    \/ ReadDropSub
    \/ ReadClosed
    \/ Sleep

SpecPart == InitPart /\ [][NextPart]_vars

(***************************************************************************)
(* SpecSend: a publisher whose table the Participant has filled, its send  *)
(* entry point, the clock and the Acks addressed to it.  The subscribers   *)
(* receive what the publisher sends them and nothing else; the publisher   *)
(* sends nothing, so their receive loops stay in recv_from.                *)
(***************************************************************************)
InitSend ==
    /\ SubInit
    /\ message = NoMessage
    /\ fed = {}
    /\ subs \in Tables
    /\ part_pc = "read"
    /\ ptp = [type |-> "Init", table |-> subs]
    /\ prev_subs = EmptyMap
    /\ announced = 1
    /\ nread = 1
    /\ part_connected = 1
    /\ part_closed = 0
    /\ part_failed = 0
    /\ part_slept = 0
    /\ part_panic = ""
    /\ SendInit
    /\ SubPartInit
    /\ RawInit
    /\ LockInit
    /\ StreamInit
    /\ CodecInit
    /\ WakerInit
    /\ TaskInit
    /\ OnceInit

NextSend == Send \/ AckArrives \/ Tick

SpecSend == InitSend /\ [][NextSend]_vars

(***************************************************************************)
(* SpecDiscovery: a process that holds a publisher or a subscriber.  The   *)
(* Participant accepts or refuses its connections, writes control messages *)
(* and closes the stream; the subscriber's socket receives datagrams       *)
(* meanwhile.                                                              *)
(***************************************************************************)
DiscReceiveHeartbeat ==
    /\ sp_pc # "absent"
    /\ nrecv < MaxPartRecv
    /\ ReceiveHeartbeat

DiscReceiveChunk ==
    /\ sp_pc # "absent"
    /\ nrecv < MaxPartRecv
    /\ ReceiveChunk

InitDiscovery ==
    /\ SubInit
    /\ message = NoMessage
    /\ fed = {}
    /\ SendInit
    /\ \/ PubInit /\ SubAbsent
       \/ PubAbsent /\ SubPartInit
    /\ RawInit
    /\ LockInit
    /\ StreamInit
    /\ CodecInit
    /\ WakerInit
    /\ TaskInit
    /\ OnceInit

NextDiscovery ==
    \/ NextPart
    \/ SubConnect
    \/ SubConnectFails
    \/ SubAnnounceFails
    \/ SubReadInit
    \/ SubReadInitFailed
    \/ SubReadClosed
    \/ SubSleep
    \/ DiscReceiveHeartbeat
    \/ DiscReceiveChunk

SpecDiscovery == InitDiscovery /\ [][NextDiscovery]_vars

(***************************************************************************)
(* SpecDecode: the receive loop fed datagrams as bytes: whole ones, their  *)
(* beginnings and ones with an unknown tag.                                *)
(***************************************************************************)
InitDecode == Init

NextDecode == ReceiveWhole \/ ReceiveTruncated \/ ReceiveMalformed

SpecDecode == InitDecode /\ [][NextDecode]_vars

(***************************************************************************)
(* SpecLock: the receive loop, one await at a time.                        *)
(***************************************************************************)
InitLock == Init

NextLock ==
    \/ LockRecvFrom
    \/ LockState
    \/ LockHeartbeatSent
    \/ LockHeartbeatIgnored
    \/ LockChunkHandled

SpecLock == InitLock /\ [][NextLock]_vars

(***************************************************************************)
(* SpecStream: a publisher connected to the Participant, which writes      *)
(* control messages to the stream; each read returns any number of the     *)
(* bytes written so far.                                                   *)
(***************************************************************************)
InitStream ==
    /\ SubInit
    /\ message = NoMessage
    /\ fed = {}
    /\ subs = EmptyMap
    /\ part_pc = "read"
    /\ ptp = [type |-> "None"]
    /\ prev_subs = EmptyMap
    /\ announced = 1
    /\ nread = 0
    /\ part_connected = 1
    /\ part_closed = 0
    /\ part_failed = 0
    /\ part_slept = 0
    /\ part_panic = ""
    /\ SendInit
    /\ SubAbsent
    /\ RawInit
    /\ LockInit
    /\ StreamInit
    /\ CodecInit
    /\ WakerInit
    /\ TaskInit
    /\ OnceInit

NextStream == ParticipantWrites \/ StreamRead

SpecStream == InitStream /\ [][NextStream]_vars

(***************************************************************************)
(* SpecCodec: a map of any content is encoded, in any of the orders a      *)
(* HashMap may yield its entries, and the result is decoded.               *)
(***************************************************************************)
InitCodec ==
    /\ SubInit
    /\ message = NoMessage
    /\ fed = {}
    /\ PubInit
    /\ SendInit
    /\ SubPartInit
    /\ RawInit
    /\ LockInit
    /\ StreamInit
    /\ codec_map \in CodecMaps
    /\ codec_wire = None
    /\ codec_out = [done |-> FALSE]
    /\ WakerInit
    /\ TaskInit
    /\ OnceInit

NextCodec == CodecEncode \/ CodecDecode

SpecCodec == InitCodec /\ [][NextCodec]_vars

(***************************************************************************)
(* SpecWaker: threads call register, wake and take of one AtomicWaker, in   *)
(* any interleaving of their atomic operations.                             *)
(***************************************************************************)
InitWaker == Init

NextWaker == Register \/ Take \/ Wake

SpecWaker == InitWaker /\ [][NextWaker]_vars

(***************************************************************************)
(* SpecTask: the owner of a spawned Task polls it, then detaches, drops or  *)
(* cancels it, while the runnable side changes the state word.              *)
(***************************************************************************)
InitTask == Init

NextTask == TaskSide \/ RunnableSide

SpecTask == InitTask /\ [][NextTask]_vars

(***************************************************************************)
(* SpecDrop: the Runnable that spawn returned is dropped and never run,     *)
(* while the owner of the Task polls it.  A poll that gets None panics in   *)
(* Task::poll (task.rs:208), which drops the Task.                          *)
(***************************************************************************)
InitDrop == Init

NextDrop ==
    \/ StartPoll
    \/ PollLoad \/ PollRegister \/ PollClosedReload \/ PollClosedNotify \/ PollReload
    \/ CancelLoad \/ CancelExchange
    \/ DetachFast \/ DetachExchange \/ DetachDestroy
    \/ RunnableDropClose
    \/ RunnableDropUnschedule
    \/ RunnableDropNotify
    \/ RunnableDropRef

SpecDrop == InitDrop /\ [][NextDrop]_vars

(***************************************************************************)
(* SpecOnce: a OnceCell of either kind is constructed empty and then set,   *)
(* read and initialised in any order, an initializer of the unsync cell     *)
(* being free to call the cell before it returns.                           *)
(***************************************************************************)
InitOnce ==
    /\ SubInit
    /\ message = NoMessage
    /\ fed = {}
    /\ PubInit
    /\ SendInit
    /\ SubPartInit
    /\ RawInit
    /\ LockInit
    /\ StreamInit
    /\ CodecInit
    /\ WakerInit
    /\ TaskInit
    /\ \E kind \in OnceKinds : OnceNew(kind)

NextOnce ==
    \/ UnsyncGet
    \/ UnsyncSet
    \/ UnsyncGetOrTryInit
    \/ UnsyncInitReturns
    \/ SyncGet
    \/ SyncBegin
    \/ SyncInitialize

SpecOnce == InitOnce /\ [][NextOnce]_vars

(***************************************************************************)
(* Claims                                                                  *)
(***************************************************************************)
LastChunk == pts.msg.type = "Chunk"
LastHeartbeat == pts.msg.type = "Heartbeat"
Called == Len(on_data) > prev.ncalls
Sent == Len(sub_sent) > prev.nsent

\* Every chunk of the message has reached the socket at least once.
C1_AllFed == fed # {} /\ fed = 0..(MessageTotal - 1)

\* C1: once every chunk of the message has been fed, in any order and with
\* any duplicates, the callback has been invoked exactly once, with a buffer
\* equal to the payload; before that it has been invoked at most once.
C1_RoundTrip ==
    /\ Len(on_data) <= 1
    /\ C1_AllFed => on_data = <<message.data>>

\* C2: a chunk of another message id replaces the buffer and the received
\* vector by ones sized from that chunk, holding that chunk alone; the callback
\* fires on it only if that chunk is the whole new message.
C2_ResetOnNewMessage ==
    (LastChunk /\ pts.msg.id # prev.id) =>
        /\ state_id = pts.msg.id
        /\ Len(state_buffer) = pts.msg.total_bytes
        /\ Len(state_received) = pts.msg.total
        /\ \A k \in 1..Len(state_received) :
              state_received[k] => (recv_alive /\ k = pts.msg.index + 1)
        /\ \A k \in 1..Len(state_buffer) :
              LET ofs == k - pts.msg.index * CHUNK_SIZE
              IN  IF recv_alive /\ ofs >= 1 /\ ofs <= Len(pts.msg.data)
                  THEN state_buffer[k] = pts.msg.data[ofs]
                  ELSE state_buffer[k] = 0
        /\ Called => (pts.msg.total = 1 /\ on_data[Len(on_data)] = pts.msg.data)

\* A chunk of another message arrived while the current one was partly received.
C2_Witness ==
    /\ LastChunk /\ pts.msg.id # prev.id /\ recv_alive
    /\ \E k \in 1..Len(prev.received) : prev.received[k]
    /\ \E k \in 1..Len(prev.received) : ~prev.received[k]
    /\ \E k \in 1..Len(prev.buffer) : prev.buffer[k] # 0

\* The last datagram was a chunk of the current message whose index had been
\* handled since the last reset.
C3_Duplicate == LastChunk /\ pts.msg.id = prev.id /\ pts.msg.index \in prev.seen

\* C3: a chunk whose id is current and whose index was handled before leaves
\* the buffer and the received vector as they were and invokes no callback.
C3_IdempotentReceipt ==
    C3_Duplicate =>
        /\ state_buffer = prev.buffer
        /\ state_received = prev.received
        /\ ~Called

\* The last chunk of a complete message arrived again.
C3_Witness ==
    /\ C3_Duplicate /\ recv_alive
    /\ Len(on_data) = 1 /\ Complete(state_received) /\ Len(state_received) > 1

\* C4: a heartbeat whose id is not the current one sends nothing and leaves
\* the accumulator and the reassembly state unchanged.
C4_HeartbeatScoping ==
    (LastHeartbeat /\ pts.msg.id # prev.id) =>
        /\ ~Sent
        /\ ack_indices = prev.acks
        /\ state_id = prev.id
        /\ state_buffer = prev.buffer
        /\ state_received = prev.received

\* A stale heartbeat arrived while indices were waiting to be acknowledged.
C4_Witness ==
    /\ LastHeartbeat /\ pts.msg.id # prev.id
    /\ prev.acks # <<>>

\* C5: a heartbeat for the current id sends exactly one Ack, to the
\* heartbeat's source, carrying the subscriber's id, the message id and the
\* accumulated indices, and empties the accumulator.
C5_HeartbeatReply ==
    (LastHeartbeat /\ pts.msg.id = prev.id) =>
        /\ Len(sub_sent) = prev.nsent + 1
        /\ sub_sent[Len(sub_sent)].to = pts.address
        /\ Len(sub_sent[Len(sub_sent)].msg) = 4
        /\ sub_sent[Len(sub_sent)].msg[1] = "Ack"
        /\ sub_sent[Len(sub_sent)].msg[2] = SUBSCRIBER_ID
        /\ sub_sent[Len(sub_sent)].msg[3] = pts.msg.id
        /\ sub_sent[Len(sub_sent)].msg[4] = prev.acks
        /\ ack_indices = <<>>

\* What a call of send put on the wire and what came back for it.
SentTo(k, address) ==
    { j \in 1..Len(pub_sent) : pub_sent[j].call = k /\ pub_sent[j].to = address }
ChunksSentTo(k, address) ==
    { pub_sent[j].msg : j \in { i \in SentTo(k, address) : pub_sent[i].msg.type = "Chunk" } }
CopiesSentTo(k, address, index) ==
    Cardinality({ j \in SentTo(k, address) :
                    pub_sent[j].msg.type = "Chunk" /\ pub_sent[j].msg.index = index })
\* The indices subscriber `sub` has acknowledged under message id `id`, by time t.
AckedBy(sub, id, t) ==
    UNION { { pub_inbox[j].msg.indices[i] : i \in 1..Len(pub_inbox[j].msg.indices) } :
            j \in { i \in 1..Len(pub_inbox) :
                      /\ pub_inbox[i].msg.sub = sub
                      /\ pub_inbox[i].msg.id = id
                      /\ pub_inbox[i].at <= t } }
\* The chunks of call k sent to `sub` and not acknowledged by it.
PendingFor(k, sub, id) ==
    { c.index : c \in ChunksSentTo(k, send_calls[k].subs[sub].address) }
        \ AckedBy(sub, id, now)
\* No datagram of the publisher is on its way to a subscriber.
NothingInFlight == \A j \in 1..Len(pub_sent) : pub_sent[j].delivered
IndicesOf(k) == 0..(ChunkCount(Len(send_calls[k].data)) - 1)

\* C6: a message sent by a publisher that knows one subscriber has, once no
\* datagram is on its way any more, been passed to the subscriber's callback
\* exactly once and whole, and nothing is pending for that subscriber.
C6_EndToEnd ==
    \A k \in 1..Len(send_calls) :
        (/\ Cardinality(DOMAIN send_calls[k].subs) = 1
         /\ Len(send_calls[k].data) > 0
         /\ NothingInFlight)
        => /\ on_data = <<send_calls[k].data>>
           /\ \A sub \in DOMAIN send_calls[k].subs :
                \E id \in MessageIds : PendingFor(k, sub, id) = {}

\* C7: once an Ack has come in, the pending set of each subscriber of the
\* message being sent is the message's indices less those the subscriber
\* acknowledged under the message's id.
C7_PendingShrink ==
    \A k \in 1..Len(send_calls) :
        (k = Len(send_calls) /\ pub_inbox # <<>>) =>
            \A sub \in DOMAIN send_calls[k].subs :
                \E id \in MessageIds :
                    PendingFor(k, sub, id) = IndicesOf(k) \ AckedBy(sub, id, now)

\* C8: send transmits each chunk when it is called; a chunk that a subscriber
\* has not acknowledged more than RETRANSMIT_DELAY_USEC later has been sent to
\* it again, and one acknowledged within that time has been sent once.
C8_RetransmitTiming ==
    \A k \in 1..Len(send_calls) :
        \A sub \in DOMAIN send_calls[k].subs : \A index \in IndicesOf(k) :
            \E id \in MessageIds :
                LET copies == CopiesSentTo(k, send_calls[k].subs[sub].address, index)
                    due == send_calls[k].at + RETRANSMIT_DELAY_USEC
                IN  /\ (now > due /\ index \notin AckedBy(sub, id, now)) => copies >= 2
                    /\ index \in AckedBy(sub, id, due) => copies <= 1

\* The headers and payload sizes of the chunks of a message.
C9_Expected(id, data) ==
    { [id |-> id, total_bytes |-> Len(data), total |-> ChunkCount(Len(data)),
       index |-> index,
       size |-> IF index < ChunkCount(Len(data)) - 1
                THEN CHUNK_SIZE
                ELSE Len(data) - (ChunkCount(Len(data)) - 1) * CHUNK_SIZE] :
      index \in 0..(ChunkCount(Len(data)) - 1) }

\* C9: the chunks send transmits to a subscriber are ceil(L/CHUNK_SIZE) chunks
\* of one message id, with total_bytes = L, total = the chunk count, indices
\* 0..total-1, CHUNK_SIZE bytes in each but the last and the rest in the last.
C9_ChunkPartition ==
    \A k \in 1..Len(send_calls) :
        \A sub \in DOMAIN send_calls[k].subs :
            \E id \in MessageIds :
                { [id |-> c.id, total_bytes |-> c.total_bytes, total |-> c.total,
                   index |-> c.index, size |-> Len(c.data)] :
                  c \in ChunksSentTo(k, send_calls[k].subs[sub].address) }
                    = C9_Expected(id, send_calls[k].data)

\* C10: after Init(table) the publisher's table is the table received.
C10_InitReplaces == ptp.type = "Init" => subs = ptp.table

\* An Init arrived whose table lacks an entry the publisher had, and holds
\* one it had not.
C10_Witness ==
    /\ ptp.type = "Init"
    /\ nread > 1
    /\ \E id \in DOMAIN prev_subs : id \notin DOMAIN ptp.table
    /\ \E id \in DOMAIN ptp.table : id \notin DOMAIN prev_subs
    /\ \A id \in DOMAIN prev_subs : id \notin DOMAIN subs

\* The table without the entry of `id`.
C11_Without(table, id) == [k \in DOMAIN table \ {id} |-> table[k]]

\* C11: after NewSub(id, ref) the publisher's table is the one it had with id
\* mapped to ref; after DropSub(id) it is the one it had without id.
C11_NewSubDropSub ==
    /\ ptp.type = "NewSub" => subs = Insert(prev_subs, ptp.id, ptp.ref)
    /\ ptp.type = "DropSub" => subs = C11_Without(prev_subs, ptp.id)

\* The reassembly state is as the discovery loop's last step found it, unless
\* a datagram was handled since.
C12_StateKept ==
    nrecv = sp_prev.nrecv =>
        /\ state_id = sp_prev.id
        /\ state_buffer = sp_prev.buffer
        /\ state_received = sp_prev.received
        /\ ack_indices = sp_prev.acks

\* C12: each time the read loop ends the discovery client sleeps
\* RECONNECT_DELAY_SECS seconds, connects again and announces itself on the
\* new connection before it reads from it; the publisher's table changes with
\* control messages only and the subscriber's reassembly state with datagrams
\* only.
C12_Reconnect ==
    /\ part_pc = "read" =>
          /\ part_connected = part_closed + 1
          /\ announced = part_connected
          /\ part_slept = RECONNECT_DELAY_SECS * part_closed
    /\ part_pc = "sleep" =>
          /\ part_connected = part_closed
          /\ part_slept = RECONNECT_DELAY_SECS * (part_closed - 1)
    /\ part_pc = "connect" =>
          /\ part_connected = part_closed
          /\ part_slept = RECONNECT_DELAY_SECS * part_closed
    /\ subs = (IF ptp.type = "Init" THEN ptp.table ELSE prev_subs)
    /\ sp_pc = "read" =>
          /\ sp_connected = sp_closed + 1
          /\ sp_announced = sp_connected
          /\ sp_slept = RECONNECT_DELAY_SECS * (sp_closed + sp_failed)
    /\ sp_pc = "sleep" =>
          /\ sp_connected = sp_closed
          /\ sp_slept = RECONNECT_DELAY_SECS * (sp_closed + sp_failed - 1)
    /\ sp_pc = "connect" =>
          /\ sp_connected = sp_closed
          /\ sp_slept = RECONNECT_DELAY_SECS * (sp_closed + sp_failed)
    /\ C12_StateKept

\* The publisher reads from its second connection, its table filled through
\* the first.
C12_Witness ==
    /\ part_pc = "read"
    /\ part_closed = 1 /\ part_connected = 2 /\ announced = 2
    /\ part_slept = RECONNECT_DELAY_SECS
    /\ ptp.type = "Init" /\ subs # EmptyMap

\* C13: a connection attempt that fails ends no discovery task: the client
\* sleeps RECONNECT_DELAY_SECS seconds after each and tries again.
C13_ConnectRetried ==
    /\ part_failed > 0 =>
          /\ part_panic # "cannot connect to participant"
          /\ part_slept >= RECONNECT_DELAY_SECS * (part_failed - 1)
          /\ part_pc = "connect" => part_slept >= RECONNECT_DELAY_SECS * part_failed
    /\ sp_failed > 0 =>
          /\ sp_panic # "cannot connect to participant"
          /\ sp_slept >= RECONNECT_DELAY_SECS * (sp_failed - 1)
          /\ sp_pc = "connect" => sp_slept >= RECONNECT_DELAY_SECS * sp_failed

\* C14: once the publisher has read InitFailed, nothing of its discovery loop
\* changes any more: no table update, no read, no connection attempt.
C14_InitFailedFatal == [][ptp.type = "InitFailed" => UNCHANGED part_vars]_vars

\* InitFailed arrived at a publisher whose table an Init had filled.
C14_Witness ==
    /\ ptp.type = "InitFailed"
    /\ part_pc = "panicked"
    /\ part_panic = "publisher initialization failed!"
    /\ subs # EmptyMap

\* C15: Init and InitFailed leave the subscriber's reassembly state and
\* accumulator as they were, and its discovery loop goes on reading.
C15_SubInitHarmless ==
    (p2s.type \in {"Init", "InitFailed"}) =>
        /\ sp_pc \in {"read", "sleep", "connect"} \/ sp_panic = "cannot send message"
        /\ C12_StateKept

\* InitFailed arrived while a message was partly received, and the loop reads
\* on.
C15_Witness ==
    /\ p2s.type = "InitFailed"
    /\ sp_pc = "read"
    /\ nrecv = sp_prev.nrecv
    /\ \E k \in 1..Len(state_received) : state_received[k]
    /\ \E k \in 1..Len(state_received) : ~state_received[k]

\* C16: a datagram that is malformed or truncated changes neither the
\* reassembly state nor the accumulator, sends nothing and invokes no
\* callback, whatever the receive buffer held, and the loop goes on.
C16_DecodeFailureDropped ==
    (nrecv > 0 /\ raw \notin WholeDatagrams) =>
        /\ state_id = prev.id
        /\ state_buffer = prev.buffer
        /\ state_received = prev.received
        /\ ack_indices = prev.acks
        /\ ~Sent
        /\ ~Called
        /\ recv_alive

\* C17: the task that waits in a socket operation does not hold the mutex of
\* the subscriber's state.
C17_NoIoUnderLock == recv_pc \in SocketOps => state_lock = ""

\* C18: once the publisher has read all the Participant wrote, the control
\* messages it decoded and applied are the ones written, in the order written,
\* however the bytes were divided among the reads.
C18_EveryMessageApplied ==
    (part_stream = <<>> /\ part_pc = "read") => applied = part_written

\* C19: decoding what encode wrote for a map yields that map, whatever the
\* order in which the entries were written.
C19_HashMapRoundTrip ==
    codec_out.done =>
        /\ codec_out.result.some
        /\ codec_out.result.value = codec_map

\* A map of three entries went through the codec with its entries written
\* in another order than that of their keys.
C19_Witness ==
    /\ codec_out.done
    /\ codec_wire.value.len = 3
    /\ codec_wire.value.items[1][1] > codec_wire.value.items[2][1]
    /\ \E k \in DOMAIN codec_map : codec_map[k] < 0

\* The buffer holds the payload copied for chunk `index` at the chunk's offset.
C20_HoldsPayload(buffer, index) ==
    /\ index * CHUNK_SIZE + Len(copied[index]) <= Len(buffer)
    /\ \A k \in 1..Len(copied[index]) :
          buffer[index * CHUNK_SIZE + k] = copied[index][k]

\* C20: the callback is invoked only when every entry of the received vector
\* is true, and the buffer it is given holds the payload of each chunk
\* received at offset index * CHUNK_SIZE; in every state the entries that are
\* true are those of the chunks whose payload the buffer holds.
C20_CompletionOnlyWhenWhole ==
    /\ \A k \in 1..Len(state_received) : state_received[k] <=> (k - 1) \in DOMAIN copied
    /\ \A index \in DOMAIN copied : C20_HoldsPayload(state_buffer, index)
    /\ Called =>
          /\ LastChunk
          /\ Complete(state_received)
          /\ DOMAIN copied = 0..(Len(state_received) - 1)
          /\ \A index \in DOMAIN copied :
                C20_HoldsPayload(on_data[Len(on_data)], index)

\* A message of two chunks was passed to the callback, its second chunk
\* having arrived before its first.
C20_Witness ==
    /\ Called /\ LastChunk
    /\ pts.msg.index = 0
    /\ Len(state_received) = 2
    /\ Len(copied[1]) > 0
    /\ \E k \in 1..Len(state_buffer) : state_buffer[k] # 0

\* C21: the callback is invoked at most once for a message id, whatever
\* chunks arrive after its message was completed.
C21_NoRedelivery ==
    \A i, j \in 1..Len(delivered) : delivered[i] = delivered[j] => i = j

\* The indices an Ack of the subscriber lists, as a sequence.
C22_Listed(k) == sub_sent[k].msg[Len(sub_sent[k].msg)]

\* C22 as stated: a chunk whose index is marked received is not copied and
\* its index is not accumulated again, so that no Ack lists an index twice.
C22_NoDuplicateAck ==
    /\ C3_Duplicate => (state_buffer = prev.buffer /\ ack_indices = prev.acks)
    /\ \A k \in 1..Len(sub_sent) :
          \A i, j \in 1..Len(C22_Listed(k)) :
              C22_Listed(k)[i] = C22_Listed(k)[j] => i = j

\* C22, amended: a chunk whose index is marked received is not copied and
\* sends nothing; its index is appended to the accumulator once more.
C22_NoSecondCopy ==
    C3_Duplicate =>
        /\ state_buffer = prev.buffer
        /\ state_received = prev.received
        /\ state_id = prev.id
        /\ ~Sent
        /\ ack_indices = Append(prev.acks, pts.msg.index)

\* A chunk arrived again whose index still waited in the accumulator, while
\* its message was not whole.
C22_Witness ==
    /\ C3_Duplicate /\ recv_alive
    /\ \E k \in 1..Len(prev.acks) : prev.acks[k] = pts.msg.index
    /\ \E k \in 1..Len(state_received) : ~state_received[k]
    /\ \E k \in 1..Len(state_buffer) : state_buffer[k] # 0

\* C23: every chunk handled appends its index to the accumulator, emptied
\* first when the chunk starts a new message, whether or not the index was
\* marked received; the Ack that answers a heartbeat lists the accumulator
\* as it stood.
C23_UnconditionalAccumulation ==
    /\ LastChunk =>
          ack_indices = Append(IF pts.msg.id # prev.id THEN <<>> ELSE prev.acks,
                               pts.msg.index)
    /\ (LastHeartbeat /\ Sent) =>
          /\ sub_sent[Len(sub_sent)].msg[Len(sub_sent[Len(sub_sent)].msg)] = prev.acks
          /\ ack_indices = <<>>

\* A heartbeat was answered with an Ack that lists an index twice.
C23_Witness ==
    /\ LastHeartbeat /\ Sent
    /\ \E i, j \in 1..Len(prev.acks) : i # j /\ prev.acks[i] = prev.acks[j]

\* C24: every index in the accumulator was pushed by a chunk that carried
\* the current message id, and an Ack for a message lists indices of chunks
\* of that message only.
C24_AckScoping ==
    /\ Len(ack_ids) = Len(ack_indices)
    /\ \A k \in 1..Len(ack_ids) : ack_ids[k] = state_id
    /\ (LastHeartbeat /\ Sent) =>
          /\ sub_sent[Len(sub_sent)].msg = AckMessage(pts.msg.id, prev.acks)
          /\ \A k \in 1..Len(prev.ack_ids) : prev.ack_ids[k] = pts.msg.id

\* An Ack listed an index after chunks of an earlier message had been
\* accumulated and dropped by a reset.
C24_Witness ==
    /\ LastHeartbeat /\ Sent
    /\ Len(prev.acks) = 1
    /\ nrecv = 3
    /\ Len(delivered) = 1 /\ delivered[1] # pts.msg.id

\* C25: the first datagram of a fresh subscriber: a heartbeat, of any id,
\* is answered with no Ack, and a chunk, of any id, sizes the buffer and
\* the received vector from its total_bytes and total.
C25_FreshHasNoMessage ==
    nrecv = 1 =>
        /\ LastHeartbeat => ~Sent
        /\ LastChunk =>
              /\ Len(state_buffer) = pts.msg.total_bytes
              /\ Len(state_received) = pts.msg.total

\* C26: no chunk ends the receive loop, and a chunk that ends outside the
\* buffer or the received vector leaves the buffer as it was.
C26_ReceiverSurvives ==
    LastChunk =>
        /\ recv_alive
        /\ (pts.msg.id = prev.id /\ pts.msg.index >= Len(prev.received)) =>
              state_buffer = prev.buffer

\* The threads that may read or write the slot: a register between its
\* exchange and its release, a take or wake that observed WAITING.
RegisterOwners == {t \in Threads : aw_pc[t] \in {"store", "release", "retake", "swap"}}
TakeOwners == {t \in Threads : aw_pc[t] \in {"take", "fetch_and"}}
AllIdle == \A t \in Threads : aw_pc[t] = "idle"

\* C27: at most one thread at a time is where it reads or writes the slot;
\* a register is there only while the state holds REGISTERING, a take only
\* while it holds WAKING alone; the state is WAITING when no call is in
\* progress.
C27_SlotExclusion ==
    /\ Cardinality(RegisterOwners \cup TakeOwners) <= 1
    /\ RegisterOwners # {} => aw_state \in {REGISTERING, REGISTERING + WAKING}
    /\ TakeOwners # {} => aw_state = WAKING
    /\ AllIdle => aw_state = WAITING
    /\ \A t \in Threads : aw_pc[t] # "panicked"

\* A register holds the slot while a take has been turned away and a second
\* register has been too.
C27_Witness ==
    /\ aw_state = REGISTERING + WAKING
    /\ RegisterOwners # {}
    /\ Cardinality(aw_reg_threads) = 2
    /\ aw_nreg = 2

\* C28: with one registering thread, a waker that was the latest registered
\* when a wake() began does not stay in the slot once its register has
\* returned and no take or wake holds the slot, and it has been woken, or
\* handed to the caller of a take(), once every call has returned.
C28_NoLostWakeup ==
    Cardinality(aw_reg_threads) <= 1 =>
        \A w \in aw_hit :
            /\ (/\ \A t \in Threads : aw_call[t] = "register" => aw_local[t] # Some(w)
                /\ TakeOwners = {})
               => aw_waker # Some(w)
            /\ AllIdle => w \in aw_woken \cup aw_taken

\* A wake() found the register in progress, and the register has taken the
\* waker back out of the slot to wake it.
C28_Witness ==
    /\ Cardinality(aw_reg_threads) = 1
    /\ \E t \in Threads :
          /\ aw_pc[t] = "wake"
          /\ aw_local[t].some
          /\ aw_local[t].value \in aw_hit
          /\ aw_local[t].value \notin aw_woken

\* C29: the output is read only after the exchange that added CLOSED to a
\* word that was COMPLETED and not CLOSED, it is read at most once over the
\* polls and the detach or drop of the Task, and never while COMPLETED is
\* unset.
C29_OutputReadOnce ==
    /\ tk_reads <= 1
    /\ ~tk_read_early
    /\ tk_pc \in {"pt_notify", "pt_read", "sd_read"} =>
          /\ tk_reads = 0
          /\ OutputReady(tk_local)
          /\ Has(tk_state, COMPLETED) /\ Has(tk_state, CLOSED)

\* A poll took the output, a later poll found the task closed, and the Task
\* was dropped.
C29_Witness ==
    /\ tk_reads = 1
    /\ tk_npoll = 2
    /\ tk_result = "None"
    /\ ~tk_alive

\* C30: set_canceled writes nothing when it finds COMPLETED or CLOSED;
\* otherwise it sets CLOSED and, when it found neither SCHEDULED nor
\* RUNNING, also SCHEDULED and one more REFERENCE, and calls schedule once,
\* else not at all; it notifies once when it found AWAITER.  cancel()
\* resolves to Some only when set_canceled found COMPLETED.
C30_CancelTransition ==
    /\ tk_cancel.done =>
          LET b == tk_cancel.before
              a == tk_cancel.after
              idle == ~Has(b, SCHEDULED) /\ ~Has(b, RUNNING)
          IN  IF Has(b, COMPLETED) \/ Has(b, CLOSED)
              THEN ~tk_cancel.changed /\ tk_cancel.nsched = 0 /\ tk_cancel.nnotif = 0
              ELSE /\ tk_cancel.changed
                   /\ Has(a, CLOSED)
                   /\ Has(a, SCHEDULED) = (idle \/ Has(b, SCHEDULED))
                   /\ Refs(a) = Refs(b) + (IF idle THEN 1 ELSE 0)
                   /\ \A f \in {RUNNING, COMPLETED, TASK, AWAITER} : Has(a, f) = Has(b, f)
                   /\ tk_cancel.nsched = (IF idle THEN 1 ELSE 0)
                   /\ tk_cancel.nnotif = (IF Has(b, AWAITER) THEN 1 ELSE 0)
    /\ tk_canceled.result = "Some" => tk_canceled.completed
    /\ (tk_canceled.called /\ ~tk_canceled.completed /\ tk_canceled.result # "")
          => tk_canceled.result = "None"

\* cancel() found a task that was neither scheduled nor running and had an
\* awaiter: it has scheduled it once and notified the awaiter.
C30_Witness ==
    /\ tk_op = "cancel"
    /\ tk_cancel.done
    /\ tk_cancel.nsched = 1
    /\ tk_cancel.nnotif = 1

C32_Stored ==
    /\ oc_first.some => oc_inner = oc_first
    /\ (oc_last.op = "set" /\ oc_last.before.some) =>
          /\ oc_last.result = "Err"
          /\ oc_last.carried = oc_last.arg
          /\ oc_last.after = oc_last.before
    /\ ~oc_ran_present

====
